---- MODULE Spec2Model ----
(***************************************************************************)
(* Verification model of the ccx-collab pipeline core:                     *)
(*   - the stage driver of `ccx-collab run` (resume / force-stage /        *)
(*     fail-fast), src/ccx_collab/commands/pipeline.py                     *)
(*   - the implement fan-out through the bounded worker pool               *)
(*   - the merge engine's file lock, src/agent/scripts/orchestrate.py      *)
(*   - the routing of a chunk to the architect / builder executor          *)
(***************************************************************************)
EXTENDS Integers, Sequences, FiniteSets, TLC

\* ------------------------------------------------------------------------
\* Bounds of the model
\* ------------------------------------------------------------------------
\* chunks of the dispatch manifest in the stage-driver specification
MaxDriverChunks == 1
\* chunks of the dispatch manifest in the fan-out specification
MaxChunks == 5
\* per-chunk input result files seen by a merge invocation
MaxInputs == 2
\* largest AGENT_MAX_RETRIES of the executor-invocation specification
MaxRetries == 3
\* executor invocations one process makes
MaxCalls == 2
\* longest input of build_report_status
MaxValues == 3
\* entries of the dispatch manifest handed to a merge
MaxManifest == 2
\* times the same merge is run
MaxRuns == 2
\* verify result paths handed to one review
MaxVerify == 2
\* subtasks of the task handed to the work splitter
MaxSubtasks == 2
\* acceptance criteria of one subtask
MaxCriteria == 4
\* chunks of a chunk list supplied by the planning result
MaxPlanChunks == 2
\* input results of one merge whose lists are aggregated
MaxResults == 2
\* action_required entries of a review
MaxRequired == 6
\* open questions of a review
MaxQuestions == 2
\* plan chunks or task subtasks of the unit of work followed from split to
\* merge
MaxEntries == 2

\* ------------------------------------------------------------------------
\* Stage driver: constants
\* ------------------------------------------------------------------------
PIPELINE_STAGES ==
    <<"validate", "plan", "split", "implement", "merge", "verify", "review">>

NumStages == Len(PIPELINE_STAGES)

StageSet == {PIPELINE_STAGES[i] : i \in 1..NumStages}

\* the value of an option that was not given (Python None)
None == "None"

\* PIPELINE_STAGES.index(stage), 1-based
StageIndex(stage) == CHOOSE i \in 1..NumStages : PIPELINE_STAGES[i] = stage

\* statuses under which _check_stage_completed counts a result file
CompletedStatuses == {"passed", "completed", "ready", "done"}

\* content of a file of the results directory: "absent", "list" (a JSON
\* array, as the dispatch matrix is) or the value of the "status" field
MainFiles ==
    {"validation", "plan", "dispatch", "dispatch_matrix", "implement",
     "verify", "review", "retrospect"}

DriverChunks == 1..MaxDriverChunks

VARIABLES
    \* --- stage driver (one `run` invocation) ---
    dir,            \* results directory: main file -> content
    chunk_files,    \* results directory: implement_<work_id>_<subtask>.json
    resume,         \* --resume
    force_stage,    \* --force-stage (None when absent)
    mode,           \* --mode
    skip_stages,    \* the set computed by _detect_resume_point
    pc,             \* position of the control thread in run()
    invoked,        \* stage functions invoked so far, in order
    skipped,        \* stages that went through _skip_stage
    exit_code,      \* process exit code once pc is "exited" / "crashed"
    last_rc,        \* return code of the last stage function that returned
    \* --- implement fan-out ---
    subtasks,       \* dispatch manifest: sequence of [depends_on]
    fstate,         \* state of the chunk execution of each subtask
    fout,           \* what each finished chunk execution returned / raised
    yielded,        \* futures already consumed by the as_completed loop
    impl_failures,  \* counter of non-zero chunk results
    unwinding,      \* an exception is propagating out of the with-block
    \* --- merge engine (two concurrent invocations) ---
    mpc,            \* position of each merge invocation
    lock_holder,    \* invocations holding the flock on <out>.lock
    mresults,       \* the input result files each invocation has loaded
    out_writer,     \* invocations that wrote the output file
    mrc,            \* return code of each merge invocation
    \* --- routing of one chunk ---
    rsource,        \* "plan" (plan-supplied chunk) or "task" (task subtask)
    rentry,         \* the source entry: [role, owner]
    rdispatch,      \* the dispatch manifest entry written by split
    rexecutor,      \* executor the chunk was invoked on
    rpc,
    \* --- executor invocation: run_agent_command in one process ---
    aenv,           \* environment knobs: [max_retries, simulate, rate_limit]
    acommand,       \* command string of the invocation in progress
    apc,            \* "idle", "loop", "returned" or "raised"
    attempt,        \* loop variable of the retry loop
    alast,          \* `last`: envelope of the last failed attempt
    aret,           \* what the invocation returned
    alog,           \* what the process did, in order
    acalls,         \* invocations begun in this process
    \* --- build_report_status on one input ---
    bvalues,        \* the input sequence of statuses
    bstatus,        \* the result
    bpc,
    \* --- merge reconciliation: action_merge_results run again and again ---
    gfiles,         \* files by name: "absent" content or a payload
    gargs,          \* [input, out, dispatch] of every run
    gclock,         \* the clock now_iso() reads
    gruns,          \* outcome of each run so far
    \* --- review gate: action_review on one set of inputs ---
    vin,            \* [plan, implement, verify]: the result files it reads
    vout,           \* the review payload written and the return code
    vpc,
    \* --- work splitter: build_chunks_from_subtasks on one task ---
    ktask,          \* task["subtasks"]
    kplan,          \* plan_data["chunks"]
    kchunks,        \* the list returned
    kpc,
    \* --- plan / implement stage: executor envelope to stage result ---
    tkind,          \* "plan" or "implement"
    texec,          \* envelope returned by run_agent_command
    tparsed,        \* what parse_cli_envelope made of its stdout
    tresult,        \* the stage payload written and the return code
    tpc,
    \* --- merge aggregation: the lists of one merged result ---
    qin,            \* [results, missing, dispatch_load_failed]
    qout,           \* the lists of the merged payload
    qpc,
    \* --- retrospective: action_retrospect on one review ---
    xin,            \* the review payload: [action_required, open_questions]
    xout,           \* the retrospect payload written
    xpc,
    \* --- one unit of work from split to merge: ids and result files ---
    esource,        \* "plan": the plan supplies chunks; "task": it does not
    eentries,       \* the plan chunks or task subtasks: [chunk_id, subtask_id]
    emanifest,      \* the subtask ids of the dispatch manifest, in order
    estate,         \* per manifest entry: "queued", "running", "finished"
    erc,            \* per manifest entry: the code run_implement returned
    efiles,         \* subtask id -> status in implement_W_<id>.json
    emerged,        \* the merged result
    epc,
    \* --- web pipeline runner: one request, its background task, a cancel ---
    wruns,          \* table pipeline_runs in started_at order, each run
                    \* with its rows of stage_results
    wreq,           \* the request: [resume, force_stage, stop_after_stage]
    wstages,        \* stages_to_run of the background task
    wi,             \* index of the loop over stages_to_run
    wcomplete,      \* pipeline_complete events published for the work id
    wcancel,        \* position of cancel_pipeline
    wpc             \* position of start_pipeline / the background task

driverVars ==
    <<dir, chunk_files, resume, force_stage, mode, skip_stages, pc, invoked,
      skipped, exit_code, last_rc>>

fanoutVars ==
    <<subtasks, fstate, fout, yielded, impl_failures, unwinding>>

mergeVars ==
    <<mpc, lock_holder, mresults, out_writer, mrc>>

routeVars == <<rsource, rentry, rdispatch, rexecutor, rpc>>

agentVars == <<aenv, acommand, apc, attempt, alast, aret, alog, acalls>>

statusVars == <<bvalues, bstatus, bpc>>

reconVars == <<gfiles, gargs, gclock, gruns>>

reviewVars == <<vin, vout, vpc>>

splitVars == <<ktask, kplan, kchunks, kpc>>

stageVars == <<tkind, texec, tparsed, tresult, tpc>>

leaf2Vars == <<reviewVars, splitVars, stageVars>>

aggVars == <<qin, qout, qpc>>

retroVars == <<xin, xout, xpc>>

idsVars ==
    <<esource, eentries, emanifest, estate, erc, efiles, emerged, epc>>

webVars == <<wruns, wreq, wstages, wi, wcomplete, wcancel, wpc>>

leaf3Vars == <<aggVars, retroVars, idsVars, webVars>>

\* the groups of leaf3Vars besides the one an action works on
exceptAgg == <<retroVars, idsVars, webVars>>

exceptRetro == <<aggVars, idsVars, webVars>>

exceptIds == <<aggVars, retroVars, webVars>>

exceptWeb == <<aggVars, retroVars, idsVars>>

\* the components below the stage driver, each checked on its own
leafVars == <<agentVars, statusVars, reconVars, leaf2Vars, leaf3Vars>>

vars == <<driverVars, fanoutVars, mergeVars, routeVars, leafVars>>

\* ------------------------------------------------------------------------
\* Stage driver: resume detection
\* ------------------------------------------------------------------------
RECURSIVE SeqOfChunkFiles(_, _)
\* contents of the chunk files 1..n in name order
SeqOfChunkFiles(cf, n) ==
    IF n = 0 THEN <<>> ELSE Append(SeqOfChunkFiles(cf, n - 1), cf[n])

\* sorted(results.glob(f"{prefix}_{work_id}*.json")): the contents of the
\* matching files in name order; "implement_<id>.json" sorts before
\* "implement_<id>_<subtask>.json" and "dispatch_<id>.json" before
\* "dispatch_<id>.matrix.json"
MatchingFiles(d, cf, stage) ==
    LET all ==
            CASE stage = "validate" -> <<d["validation"]>>
              [] stage = "plan" -> <<d["plan"]>>
              [] stage = "split" -> <<d["dispatch"], d["dispatch_matrix"]>>
              [] stage \in {"implement", "merge"} ->
                    <<d["implement"]>> \o SeqOfChunkFiles(cf, MaxDriverChunks)
              [] stage = "verify" -> <<d["verify"]>>
              [] stage = "review" -> <<d["review"]>>
    IN SelectSeq(all, LAMBDA c : c # "absent")

RECURSIVE ScanFiles(_)
\* the loop of _check_stage_completed: "found" at the first file whose
\* status is a completed one, "raise" at a file that is not a JSON object
\* (data.get fails, and AttributeError is not caught), "none" otherwise
ScanFiles(files) ==
    IF files = <<>> THEN "none"
    ELSE IF Head(files) = "list" THEN "raise"
    ELSE IF Head(files) \in CompletedStatuses THEN "found"
    ELSE ScanFiles(Tail(files))

check_stage_completed(d, cf, stage) == ScanFiles(MatchingFiles(d, cf, stage))

\* mutant: the forced stage itself is still scanned
AtForceBoundaryOffByOne(force_index, i) == force_index # 0 /\ i > force_index

\* the boundary test of the scan loop: "force_index is not None and
\* i >= force_index" (force_index 0 stands for None)
AtForceBoundary(force_index, i) == force_index # 0 /\ i >= force_index

RECURSIVE ResumeScanNoBreak(_, _, _, _)
\* mutant: a stage without a completed result does not end the scan
ResumeScanNoBreak(d, cf, force_index, i) ==
    IF i > NumStages THEN [raised |-> FALSE, skip |-> {}]
    ELSE IF AtForceBoundary(force_index, i) THEN [raised |-> FALSE, skip |-> {}]
    ELSE LET r == check_stage_completed(d, cf, PIPELINE_STAGES[i])
             rest == ResumeScanNoBreak(d, cf, force_index, i + 1)
         IN IF r = "raise" THEN [raised |-> TRUE, skip |-> {}]
            ELSE [raised |-> rest.raised,
                  skip |-> (IF r = "found" THEN {PIPELINE_STAGES[i]} ELSE {})
                               \cup rest.skip]

RECURSIVE ResumeScan(_, _, _, _)
\* the loop of _detect_resume_point from stage i on
ResumeScan(d, cf, force_index, i) ==
    IF i > NumStages THEN [raised |-> FALSE, skip |-> {}]
    ELSE IF AtForceBoundary(force_index, i) THEN [raised |-> FALSE, skip |-> {}]
    ELSE LET r == check_stage_completed(d, cf, PIPELINE_STAGES[i]) IN
         IF r = "raise" THEN [raised |-> TRUE, skip |-> {}]
         ELSE IF r = "found"
              THEN LET rest == ResumeScan(d, cf, force_index, i + 1) IN
                   [raised |-> rest.raised,
                    skip |-> {PIPELINE_STAGES[i]} \cup rest.skip]
              ELSE [raised |-> FALSE, skip |-> {}]

detect_resume_point(d, cf, force) ==
    LET force_index == IF force # None /\ force \in StageSet
                       THEN StageIndex(force) ELSE 0
    IN ResumeScan(d, cf, force_index, 1)

\* ------------------------------------------------------------------------
\* Stage functions (bridge.run_* -> orchestrate.action_*): what a call
\* returns and the status of the result file it writes
\* ------------------------------------------------------------------------
Ret(rc, wrote) == [kind |-> "return", rc |-> rc, wrote |-> wrote]

Raise == [kind |-> "raise", rc |-> 1, wrote |-> "nowrite"]

\* action_validate_task: "ready"/0, "blocked"/2, or load_json raises
run_validate == {Ret(0, "ready"), Ret(2, "blocked"), Raise}

\* action_run_plan: 2 without a file on an invalid task, "done"/0,
\* "blocked"/2, or run_agent_command raises (no command configured)
run_plan == {Ret(2, "nowrite"), Ret(0, "done"), Ret(2, "blocked"), Raise}

\* action_split_task: 2 without a file on an invalid task, else "done"/0
run_split == {Ret(2, "nowrite"), Ret(0, "done")}

\* action_run_implement for a subtask of the dispatch manifest: 2 without a
\* file on an invalid task, "done"/0, "failed"/2, "blocked"/2, or raises
run_implement ==
    {Ret(2, "nowrite"), Ret(0, "done"), Ret(2, "failed"), Ret(2, "blocked"),
     Raise}

\* action_run_verify: no commands -> "failed"/1, else "passed"/0, "failed"/2
run_verify == {Ret(1, "failed"), Ret(0, "passed"), Ret(2, "failed")}

\* `x in values` on a Python sequence
InValues(x, values) == \E k \in 1..Len(values) : values[k] = x

\* mutant: blocked is looked for before failed and skipped
build_report_status_blocked_first(values) ==
    IF InValues("blocked", values) THEN "blocked"
    ELSE IF InValues("failed", values) THEN "failed"
    ELSE IF InValues("skipped", values) THEN "failed"
    ELSE IF InValues("simulated", values) THEN "done"
    ELSE IF InValues("passed", values) THEN "done"
    ELSE IF InValues("ready", values) THEN "ready"
    ELSE "done"

build_report_status(values) ==
    IF InValues("failed", values) THEN "failed"
    ELSE IF InValues("skipped", values) THEN "failed"
    ELSE IF InValues("blocked", values) THEN "blocked"
    ELSE IF InValues("simulated", values) THEN "done"
    ELSE IF InValues("passed", values) THEN "done"
    ELSE IF InValues("ready", values) THEN "ready"
    ELSE "done"

\* the subtask ids of a dispatch file (a file without "subtasks" has none)
ManifestOf(dispatch, ids) == IF dispatch = "done" THEN ids ELSE {}

\* action_merge_results on the directory-constructed glob
\* implement_<work_id>_*.json with the dispatch file of the run
run_merge(d, cf, lock_free) ==
    LET results == {i \in DOMAIN cf : cf[i] # "absent"}
        status0 == build_report_status(
                       SelectSeq(cf, LAMBDA content : content # "absent"))
        dispatch_load_failed == d["dispatch"] = "absent"
        missing == ManifestOf(d["dispatch"], DOMAIN cf) \ results
        status == IF dispatch_load_failed THEN "failed"
                  ELSE IF missing # {} /\ status0 \notin {"failed", "blocked"}
                       THEN "failed"
                  ELSE status0
    IN IF ~lock_free THEN Ret(1, "nowrite")
       ELSE IF results = {} THEN Ret(2, "blocked")
       ELSE Ret(IF status \notin {"failed", "blocked"} THEN 0 ELSE 2, status)

\* action_review: go/no-go from the plan, implement and verify files; with
\* every status in order the open questions still decide
run_review(d) ==
    LET implement_status ==
            IF d["implement"] = "absent" THEN "blocked" ELSE d["implement"]
        forced == \/ d["plan"] # "done"
                  \/ implement_status # "done"
                  \/ (d["verify"] # "absent" /\ d["verify"] # "passed")
    IN IF forced THEN {Ret(2, "blocked")}
       ELSE {Ret(2, "blocked"), Ret(0, "ready_for_merge")}

\* action_retrospect: 1 without a file when the review payload is empty
run_retrospect(d) ==
    IF d["review"] = "absent" THEN Ret(1, "nowrite") ELSE Ret(0, "ready")

\* ------------------------------------------------------------------------
\* Stage driver: run()
\* ------------------------------------------------------------------------
InitContents == {"absent", "done", "failed"}

IdleFanout ==
    /\ subtasks = <<>>
    /\ fstate = <<>>
    /\ fout = <<>>
    /\ yielded = {}
    /\ impl_failures = 0
    /\ unwinding = FALSE

Procs == {1, 2}

IdleMerge ==
    /\ mpc = [p \in Procs |-> "idle"]
    /\ lock_holder = {}
    /\ mresults = [p \in Procs |-> <<>>]
    /\ out_writer = {}
    /\ mrc = [p \in Procs |-> 0]

IdleRoute ==
    /\ rsource = "task"
    /\ rentry = [role |-> "absent", owner |-> "absent"]
    /\ rdispatch = [role |-> "absent", owner |-> "absent"]
    /\ rexecutor = "none"
    /\ rpc = "idle"

\* no envelope (`last = None`, nothing returned yet)
NoEnvelope ==
    [status |-> "none", return_code |-> 0, attempt |-> 0, stderr |-> ""]

IdleAgent ==
    /\ aenv = [max_retries |-> 0, simulate |-> FALSE, rate_limit |-> 0]
    /\ acommand = ""
    /\ apc = "idle"
    /\ attempt = 0
    /\ alast = NoEnvelope
    /\ aret = NoEnvelope
    /\ alog = <<>>
    /\ acalls = 0

IdleStatus ==
    /\ bvalues = <<>>
    /\ bstatus = "none"
    /\ bpc = "idle"

\* the names the merge meets: the directory of the input pattern in the
\* order sorted(base.glob(...)) yields them ('.' < '_', 'S' < 'm'), and an
\* output path in another directory
BaseNames ==
    <<"implement_W.json", "implement_W_S01.json", "implement_W_S02.json",
      "implement_W_merged.json">>

OutsideName == "out/merged.json"

FileNames == {BaseNames[k] : k \in 1..Len(BaseNames)} \cup {OutsideName}

\* a name without a file
NoFile ==
    [present |-> FALSE, agent |-> "", generated_at |-> 0, checksum |-> <<>>,
     payload |-> <<>>]

IdleRecon ==
    /\ gfiles = [n \in FileNames |-> NoFile]
    /\ gargs = [input |-> "", out |-> "", dispatch |-> ""]
    /\ gclock = 0
    /\ gruns = <<>>

IdleReview == vin = <<>> /\ vout = <<>> /\ vpc = "idle"

IdleSplit == ktask = <<>> /\ kplan = <<>> /\ kchunks = <<>> /\ kpc = "idle"

IdleStage ==
    /\ tkind = "" /\ texec = <<>> /\ tparsed = <<>> /\ tresult = <<>>
    /\ tpc = "idle"

IdleLeaf2 == IdleReview /\ IdleSplit /\ IdleStage

IdleAgg == qin = <<>> /\ qout = <<>> /\ qpc = "idle"

IdleRetro == xin = <<>> /\ xout = <<>> /\ xpc = "idle"

IdleIds ==
    /\ esource = "none" /\ eentries = <<>> /\ emanifest = <<>>
    /\ estate = <<>> /\ erc = <<>> /\ efiles = <<>> /\ emerged = <<>>
    /\ epc = "idle"

IdleWeb ==
    /\ wruns = <<>> /\ wreq = <<>> /\ wstages = <<>> /\ wi = 0
    /\ wcomplete = 0 /\ wcancel = "idle" /\ wpc = "idle"

IdleLeaf3 == IdleAgg /\ IdleRetro /\ IdleIds /\ IdleWeb

IdleLeaf == IdleAgent /\ IdleStatus /\ IdleRecon /\ IdleLeaf2 /\ IdleLeaf3

\* a results directory left by earlier runs, and the options of this run
\* (--force-stage is only read under --resume)
InitDriver ==
    /\ dir \in [MainFiles -> InitContents \cup {"list"}]
    /\ \A f \in MainFiles \ {"dispatch_matrix", "retrospect"} :
            dir[f] \in InitContents
    /\ dir["dispatch_matrix"] \in {"absent", "list"}
    /\ dir["retrospect"] = "absent"
    /\ chunk_files \in [DriverChunks -> InitContents]
    /\ resume \in BOOLEAN
    /\ force_stage \in StageSet \cup {None}
    /\ (~resume => force_stage = None)
    /\ mode \in {"full", "implement-only"}
    /\ skip_stages = {}
    /\ pc = "start"
    /\ invoked = <<>>
    /\ skipped = {}
    /\ exit_code = 0
    /\ last_rc = 0

Init == InitDriver /\ IdleFanout /\ IdleMerge /\ IdleRoute /\ IdleLeaf

WriteFile(d, f, st) == IF st = "nowrite" THEN d ELSE [d EXCEPT ![f] = st]

\* mutant: every abort exits with status 1
SysExitOne(rc) == pc' = "exited" /\ exit_code' = 1

\* sys.exit(rc)
SysExit(rc) == pc' = "exited" /\ exit_code' = rc

\* an exception nobody catches ends the process with a traceback, status 1
Crash == pc' = "crashed" /\ exit_code' = 1

\* mutant: the mode is not looked at after merge
AdvanceIgnoresMode(stage) ==
    /\ IF stage = "retrospect"
       THEN pc' = "done" /\ exit_code' = 0
       ELSE /\ exit_code' = exit_code
            /\ pc' = IF stage = "review" THEN "retrospect"
                     ELSE PIPELINE_STAGES[StageIndex(stage) + 1]

\* the statement of run() that follows a stage: implement-only returns
\* after merge, the retrospective follows review, then the run is complete
Advance(stage) ==
    /\ IF stage = "retrospect" \/ (stage = "merge" /\ mode = "implement-only")
       THEN pc' = "done" /\ exit_code' = 0
       ELSE /\ exit_code' = exit_code
            /\ pc' = IF stage = "review" THEN "retrospect"
                     ELSE PIPELINE_STAGES[StageIndex(stage) + 1]

\* _run_stage(num, label, fn): rc = fn(); if rc != 0: sys.exit(rc)
RunStageFn(stage, file, o) ==
    /\ invoked' = Append(invoked, stage)
    /\ dir' = WriteFile(dir, file, o.wrote)
    /\ last_rc' = IF o.kind = "raise" THEN last_rc ELSE o.rc
    /\ IF o.kind = "raise" THEN Crash
       ELSE IF o.rc # 0 THEN SysExit(o.rc)
       ELSE Advance(stage)

\* skip_stages = _detect_resume_point(...) if resume else set()
Start ==
    /\ pc = "start"
    /\ LET r == detect_resume_point(dir, chunk_files, force_stage) IN
       IF resume /\ r.raised
       THEN Crash /\ skip_stages' = skip_stages
       ELSE /\ skip_stages' = IF resume THEN r.skip ELSE {}
            /\ pc' = "validate"
            /\ UNCHANGED exit_code
    /\ UNCHANGED <<dir, chunk_files, resume, force_stage, mode, invoked,
                   skipped, last_rc>>
    /\ UNCHANGED <<fanoutVars, mergeVars, routeVars, leafVars>>

\* mutant: the retrospective sits in the branch that runs review, so a
\* skipped review ends the run
SkipStageDropsRetrospect ==
    /\ pc \in StageSet
    /\ pc \in skip_stages
    /\ skipped' = skipped \cup {pc}
    /\ IF pc = "review" THEN pc' = "done" /\ exit_code' = 0 ELSE Advance(pc)
    /\ UNCHANGED <<dir, chunk_files, resume, force_stage, mode, skip_stages,
                   invoked, last_rc>>
    /\ UNCHANGED <<fanoutVars, mergeVars, routeVars, leafVars>>

\* _skip_stage(num, label, stage_name)
SkipStage ==
    /\ pc \in StageSet
    /\ pc \in skip_stages
    /\ skipped' = skipped \cup {pc}
    /\ Advance(pc)
    /\ UNCHANGED <<dir, chunk_files, resume, force_stage, mode, skip_stages,
                   invoked, last_rc>>
    /\ UNCHANGED <<fanoutVars, mergeVars, routeVars, leafVars>>

RunValidate ==
    /\ pc = "validate" /\ "validate" \notin skip_stages
    /\ \E o \in run_validate : RunStageFn("validate", "validation", o)
    /\ UNCHANGED <<chunk_files, resume, force_stage, mode, skip_stages, skipped>>
    /\ UNCHANGED <<fanoutVars, mergeVars, routeVars, leafVars>>

RunPlan ==
    /\ pc = "plan" /\ "plan" \notin skip_stages
    /\ \E o \in run_plan : RunStageFn("plan", "plan", o)
    /\ UNCHANGED <<chunk_files, resume, force_stage, mode, skip_stages, skipped>>
    /\ UNCHANGED <<fanoutVars, mergeVars, routeVars, leafVars>>

\* run_split writes the dispatch file and its matrix sibling
RunSplit ==
    /\ pc = "split" /\ "split" \notin skip_stages
    /\ \E o \in run_split :
         /\ invoked' = Append(invoked, "split")
         /\ dir' = IF o.wrote = "nowrite" THEN dir
                   ELSE [dir EXCEPT !["dispatch"] = o.wrote,
                                    !["dispatch_matrix"] = "list"]
         /\ last_rc' = o.rc
         /\ IF o.rc # 0 THEN SysExit(o.rc) ELSE Advance("split")
    /\ UNCHANGED <<chunk_files, resume, force_stage, mode, skip_stages, skipped>>
    /\ UNCHANGED <<fanoutVars, mergeVars, routeVars, leafVars>>

\* mutant: a single failed chunk is tolerated
ImplementExitTolerant(failures) == IF failures > 1 THEN 1 ELSE 0

\* the exit decision after the fan-out: "if impl_failures > 0: sys.exit(1)"
ImplementExit(failures) == IF failures > 0 THEN 1 ELSE 0

\* stage 4 as a whole: every chunk of the manifest is executed, the pool
\* is joined, then the failure count decides
RunImplementStage ==
    /\ pc = "implement" /\ "implement" \notin skip_stages
    /\ UNCHANGED dir
    /\ IF dir["dispatch"] = "absent"
       THEN Crash /\ UNCHANGED <<invoked, chunk_files, last_rc>>
       ELSE \E outs \in [ManifestOf(dir["dispatch"], DriverChunks)
                            -> run_implement] :
              LET ids == DOMAIN outs
                  failures == Cardinality({i \in ids : outs[i].kind = "return"
                                                        /\ outs[i].rc # 0})
              IN /\ invoked' = IF ids = {} THEN invoked
                               ELSE Append(invoked, "implement")
                 /\ chunk_files' =
                        [i \in DriverChunks |->
                            IF i \in ids /\ outs[i].wrote # "nowrite"
                            THEN outs[i].wrote ELSE chunk_files[i]]
                 /\ IF \E i \in ids : outs[i].kind = "raise"
                    THEN Crash /\ last_rc' = last_rc
                    ELSE /\ last_rc' = ImplementExit(failures)
                         /\ IF ImplementExit(failures) # 0
                            THEN SysExit(ImplementExit(failures))
                            ELSE Advance("implement")
    /\ UNCHANGED <<resume, force_stage, mode, skip_stages, skipped>>
    /\ UNCHANGED <<fanoutVars, mergeVars, routeVars, leafVars>>

\* stage 5; the lock may be held by a merge of another process
RunMerge ==
    /\ pc = "merge" /\ "merge" \notin skip_stages
    /\ \E lock_free \in BOOLEAN :
         RunStageFn("merge", "implement", run_merge(dir, chunk_files, lock_free))
    /\ UNCHANGED <<chunk_files, resume, force_stage, mode, skip_stages, skipped>>
    /\ UNCHANGED <<fanoutVars, mergeVars, routeVars, leafVars>>

RunVerify ==
    /\ pc = "verify" /\ "verify" \notin skip_stages
    /\ \E o \in run_verify : RunStageFn("verify", "verify", o)
    /\ UNCHANGED <<chunk_files, resume, force_stage, mode, skip_stages, skipped>>
    /\ UNCHANGED <<fanoutVars, mergeVars, routeVars, leafVars>>

\* stage 7: rc = run_review(...); if rc != 0: sys.exit(rc)
RunReview ==
    /\ pc = "review" /\ "review" \notin skip_stages
    /\ \E o \in run_review(dir) : RunStageFn("review", "review", o)
    /\ UNCHANGED <<chunk_files, resume, force_stage, mode, skip_stages, skipped>>
    /\ UNCHANGED <<fanoutVars, mergeVars, routeVars, leafVars>>

\* the retrospective runs after review, skipped or not
RunRetrospect ==
    /\ pc = "retrospect"
    /\ RunStageFn("retrospect", "retrospect", run_retrospect(dir))
    /\ UNCHANGED <<chunk_files, resume, force_stage, mode, skip_stages, skipped>>
    /\ UNCHANGED <<fanoutVars, mergeVars, routeVars, leafVars>>

Next ==
    \/ Start
    \/ SkipStage
    \/ RunValidate
    \/ RunPlan
    \/ RunSplit
    \/ RunImplementStage
    \/ RunMerge
    \/ RunVerify
    \/ RunReview
    \/ RunRetrospect

Spec == Init /\ [][Next]_vars

\* ------------------------------------------------------------------------
\* Properties of the stage driver
\* ------------------------------------------------------------------------
\* some result file matching the stage's prefix has a completed status
HasCompletedResult(d, cf, stage) ==
    LET files == MatchingFiles(d, cf, stage) IN
    \E k \in 1..Len(files) : files[k] \in CompletedStatuses

\* the longest initial segment of the canonical order in which every stage
\* has a completed result file
LongestCompletedPrefix(d, cf) ==
    {PIPELINE_STAGES[k] : k \in
        {n \in 1..NumStages :
            \A j \in 1..n : HasCompletedResult(d, cf, PIPELINE_STAGES[j])}}

StagesBefore(stage) ==
    {PIPELINE_STAGES[k] : k \in 1..(StageIndex(stage) - 1)}

\* C1: with resume and no force_stage, the skip-set that was computed (the
\* directory is still as the scan saw it when the driver is at validate) is
\* exactly the longest initial segment of completed stages, and no stage
\* outside that skip-set ever goes through the skip branch
C1_SkipSetIsCompletedPrefix ==
    (resume /\ force_stage = None) =>
        /\ (pc = "validate" =>
                skip_stages = LongestCompletedPrefix(dir, chunk_files))
        /\ skipped \subseteq skip_stages

\* C1 witness: validate and plan completed, split failed, a later stage with
\* a completed file of its own; exactly validate and plan are skipped and
\* split has been executed again
C1_Witness ==
    /\ resume /\ force_stage = None
    /\ skip_stages = {"validate", "plan"}
    /\ skipped = {"validate", "plan"}
    /\ dir["implement"] = "done" /\ dir["verify"] = "done"
    /\ invoked = <<"split">>
    /\ pc = "implement"

\* C2: with resume and force_stage = S, the skip-set holds only stages
\* strictly before S, it is the completed prefix cut at S, and neither S nor
\* a stage after S ever goes through the skip branch
C2_ForceStageNeverSkipped ==
    (resume /\ force_stage # None) =>
        /\ skip_stages \subseteq StagesBefore(force_stage)
        /\ skipped \subseteq StagesBefore(force_stage)
        /\ (pc = "validate" =>
                skip_stages = LongestCompletedPrefix(dir, chunk_files)
                                \cap StagesBefore(force_stage))

\* C2 witness: every stage has a completed result, verify is forced: the five
\* stages before it were skipped and verify was executed
C2_Witness ==
    /\ resume /\ force_stage = "verify"
    /\ skipped = {"validate", "plan", "split", "implement", "merge"}
    /\ dir["review"] = "done"
    /\ Len(invoked) >= 1 /\ invoked[1] = "verify"

Terminated == pc \in {"done", "exited", "crashed"}

\* the stage function called last, None before the first call
LastInvoked == IF invoked = <<>> THEN None ELSE invoked[Len(invoked)]

\* the result file of a stage exists; implement writes one file per chunk
ResultFileExists(stage) ==
    CASE stage = "validate" -> dir["validation"] # "absent"
      [] stage = "split" -> dir["dispatch"] # "absent"
      [] stage = "implement" -> \E i \in DriverChunks : chunk_files[i] # "absent"
      [] stage = "merge" -> dir["implement"] # "absent"
      [] OTHER -> dir[stage] # "absent"

\* C22: a run that ended because its last stage function returned a non-zero
\* code or raised finds that stage's result file on disk
C22_FailureWritesResult ==
    (pc \in {"exited", "crashed"} /\ LastInvoked # None) =>
        ResultFileExists(LastInvoked)

\* the run came to the review stage: review was called or skipped
ReachedReview ==
    \/ "review" \in skipped
    \/ \E k \in 1..Len(invoked) : invoked[k] = "review"

C23_WitnessExecuted ==
    /\ mode = "full" /\ pc = "done" /\ dir["review"] = "ready_for_merge"
    /\ Len(invoked) >= 2 /\ invoked[Len(invoked) - 1] = "review"
    /\ LastInvoked = "retrospect"

C23_WitnessBlocked ==
    /\ mode = "full" /\ pc = "exited" /\ exit_code = 2
    /\ LastInvoked = "review" /\ dir["review"] = "blocked"

\* C24: in implement-only mode no step of the run invokes verify, review or
\* the retrospective, none writes a review or retrospect result file, and
\* the run never stands at one of those stages, whatever resume and
\* force_stage are
C24_ImplementOnlyStopsAfterMerge ==
    [][mode = "implement-only" =>
          /\ pc' \notin {"verify", "review", "retrospect"}
          /\ \A k \in 1..Len(invoked') :
                 invoked'[k] \notin {"verify", "review", "retrospect"}
          /\ dir'["review"] = dir["review"]
          /\ dir'["retrospect"] = dir["retrospect"]
          /\ dir'["verify"] = dir["verify"]]_vars

\* C24 witnesses: an implement-only run is complete right after merge ran;
\* a resumed one with a forced stage is complete after merge too
C24_Witness ==
    /\ mode = "implement-only" /\ pc = "done" /\ exit_code = 0
    /\ LastInvoked = "merge"

C24_WitnessResume ==
    /\ mode = "implement-only" /\ pc = "done"
    /\ resume /\ force_stage = "merge" /\ invoked = <<"merge">>

\* ------------------------------------------------------------------------
\* Implement fan-out: stage 4 of run() step by step, then stage 5
\* ------------------------------------------------------------------------
Min(a, b) == IF a < b THEN a ELSE b

\* the cap of the worker pool
MaxPool == 4

\* mutant: one worker per subtask
PoolSizeUnbounded(n) == n

\* max_workers = min(4, len(subtasks))
PoolSize(n) == Min(MaxPool, n)

\* manifests: independent subtasks, or the parts of one split subtask
\* (part i depends on part i-1)
NoDeps(n) == [i \in 1..n |-> [depends_on |-> {}]]

Chain(n) == [i \in 1..n |-> [depends_on |-> IF i = 1 THEN {} ELSE {i - 1}]]

Pending == [kind |-> "pending", rc |-> 0, wrote |-> "nowrite"]

ChunkIds == 1..Len(subtasks)

Running == {i \in ChunkIds : fstate[i] = "running"}

Finished == {i \in ChunkIds : fstate[i] = "finished"}

\* the results directory once validate, plan and split have succeeded
AfterSplitDir ==
    [f \in MainFiles |->
        CASE f = "validation" -> "ready"
          [] f \in {"plan", "dispatch"} -> "done"
          [] f = "dispatch_matrix" -> "list"
          [] OTHER -> "absent"]

\* a run that reached stage 4 after validate, plan and split succeeded
InitFanout ==
    /\ subtasks \in {NoDeps(n) : n \in 0..MaxChunks}
                        \cup {Chain(n) : n \in 0..MaxChunks}
    /\ fstate = [i \in 1..Len(subtasks) |-> "unsubmitted"]
    /\ fout = [i \in 1..Len(subtasks) |-> Pending]
    /\ yielded = {}
    /\ impl_failures = 0
    /\ unwinding = FALSE
    /\ dir = AfterSplitDir
    /\ chunk_files = [i \in 1..Len(subtasks) |-> "absent"]
    /\ resume = FALSE
    /\ force_stage = None
    /\ mode = "full"
    /\ skip_stages = {}
    /\ pc = "implement"
    /\ invoked = <<"validate", "plan", "split">>
    /\ skipped = {}
    /\ exit_code = 0
    /\ last_rc = 0

\* subtasks = dispatch_data.get("subtasks", []); "if subtasks:"
FanoutBegin ==
    /\ pc = "implement" /\ "implement" \notin skip_stages
    /\ pc' = IF Len(subtasks) > 0 THEN "submit" ELSE "impl_check"
    /\ invoked' = Append(invoked, "implement")
    /\ UNCHANGED <<dir, chunk_files, resume, force_stage, mode, skip_stages,
                   skipped, exit_code, last_rc>>
    /\ UNCHANGED <<fanoutVars, mergeVars, routeVars, leafVars>>

\* futures = {executor.submit(_run_subtask, st): st for st in subtasks}:
\* one submit per subtask, in manifest order, whatever depends_on says
Submit ==
    /\ pc = "submit"
    /\ LET i == CHOOSE k \in ChunkIds :
                    /\ fstate[k] = "unsubmitted"
                    /\ \A j \in 1..(k - 1) : fstate[j] # "unsubmitted"
       IN /\ fstate' = [fstate EXCEPT ![i] = "queued"]
          /\ pc' = IF i = Len(subtasks) THEN "as_completed" ELSE "submit"
    /\ UNCHANGED <<dir, chunk_files, resume, force_stage, mode, skip_stages,
                   invoked, skipped, exit_code, last_rc>>
    /\ UNCHANGED <<subtasks, fout, yielded, impl_failures, unwinding>>
    /\ UNCHANGED <<mergeVars, routeVars, leafVars>>

\* a worker of the pool takes the oldest queued work item
WorkerStart(i) ==
    /\ fstate[i] = "queued"
    /\ \A j \in 1..(i - 1) : fstate[j] # "queued"
    /\ Cardinality(Running) < PoolSize(Len(subtasks))
    /\ fstate' = [fstate EXCEPT ![i] = "running"]
    /\ UNCHANGED driverVars
    /\ UNCHANGED <<subtasks, fout, yielded, impl_failures, unwinding>>
    /\ UNCHANGED <<mergeVars, routeVars, leafVars>>

\* _run_subtask(st) ends: run_implement returned (after writing its result
\* file, if it wrote one) or raised
WorkerFinish(i) ==
    /\ fstate[i] = "running"
    /\ \E o \in run_implement :
         /\ fout' = [fout EXCEPT ![i] = o]
         /\ chunk_files' = IF o.wrote = "nowrite" THEN chunk_files
                           ELSE [chunk_files EXCEPT ![i] = o.wrote]
    /\ fstate' = [fstate EXCEPT ![i] = "finished"]
    /\ UNCHANGED <<dir, resume, force_stage, mode, skip_stages, pc, invoked,
                   skipped, exit_code, last_rc>>
    /\ UNCHANGED <<subtasks, yielded, impl_failures, unwinding>>
    /\ UNCHANGED <<mergeVars, routeVars, leafVars>>

\* mutant: a failure is counted only when its future is yielded after the
\* futures of all earlier subtasks
AsCompletedInOrderOnly(i) ==
    /\ pc = "as_completed"
    /\ i \in Finished \ yielded
    /\ yielded' = yielded \cup {i}
    /\ IF fout[i].kind = "raise"
       THEN /\ unwinding' = TRUE
            /\ pc' = "pool_exit"
            /\ UNCHANGED impl_failures
       ELSE /\ impl_failures' = impl_failures +
                    (IF fout[i].rc # 0 /\ \A j \in 1..(i - 1) : j \in yielded
                     THEN 1 ELSE 0)
            /\ pc' = IF yielded' = ChunkIds THEN "pool_exit" ELSE "as_completed"
            /\ UNCHANGED unwinding
    /\ UNCHANGED <<dir, chunk_files, resume, force_stage, mode, skip_stages,
                   invoked, skipped, exit_code, last_rc>>
    /\ UNCHANGED <<subtasks, fstate, fout>>
    /\ UNCHANGED <<mergeVars, routeVars, leafVars>>

\* one iteration of "for future in as_completed(futures)":
\* rc = future.result() re-raises the chunk's exception, else counts rc != 0
AsCompleted(i) ==
    /\ pc = "as_completed"
    /\ i \in Finished \ yielded
    /\ yielded' = yielded \cup {i}
    /\ IF fout[i].kind = "raise"
       THEN /\ unwinding' = TRUE
            /\ pc' = "pool_exit"
            /\ UNCHANGED impl_failures
       ELSE /\ impl_failures' = impl_failures + (IF fout[i].rc # 0 THEN 1 ELSE 0)
            /\ pc' = IF yielded' = ChunkIds THEN "pool_exit" ELSE "as_completed"
            /\ UNCHANGED unwinding
    /\ UNCHANGED <<dir, chunk_files, resume, force_stage, mode, skip_stages,
                   invoked, skipped, exit_code, last_rc>>
    /\ UNCHANGED <<subtasks, fstate, fout>>
    /\ UNCHANGED <<mergeVars, routeVars, leafVars>>

\* mutant: the pool is left without joining its workers
ShutdownNoWait == TRUE

\* ThreadPoolExecutor.__exit__ is shutdown(wait=True): it returns when every
\* submitted work item has run to its end
ShutdownWait == \A i \in ChunkIds : fstate[i] = "finished"

\* leaving the with-block, normally or with the exception of a chunk
PoolExit ==
    /\ pc = "pool_exit"
    /\ ShutdownWait
    /\ IF unwinding THEN Crash ELSE pc' = "impl_check" /\ UNCHANGED exit_code
    /\ UNCHANGED <<dir, chunk_files, resume, force_stage, mode, skip_stages,
                   invoked, skipped, last_rc>>
    /\ UNCHANGED <<fanoutVars, mergeVars, routeVars, leafVars>>

\* if impl_failures > 0: sys.exit(1)
ImplCheck ==
    /\ pc = "impl_check"
    /\ last_rc' = ImplementExit(impl_failures)
    /\ IF ImplementExit(impl_failures) # 0
       THEN SysExit(ImplementExit(impl_failures))
       ELSE Advance("implement")
    /\ UNCHANGED <<dir, chunk_files, resume, force_stage, mode, skip_stages,
                   invoked, skipped>>
    /\ UNCHANGED <<fanoutVars, mergeVars, routeVars, leafVars>>

NextFanout ==
    \/ FanoutBegin
    \/ Submit
    \/ \E i \in ChunkIds : WorkerStart(i)
    \/ \E i \in ChunkIds : WorkerFinish(i)
    \/ \E i \in ChunkIds : AsCompleted(i)
    \/ PoolExit
    \/ ImplCheck
    \/ RunMerge

FanoutInit == InitFanout /\ IdleMerge /\ IdleRoute /\ IdleLeaf

SpecFanout == FanoutInit /\ [][NextFanout]_vars

\* ------------------------------------------------------------------------
\* Properties of the implement fan-out
\* ------------------------------------------------------------------------
Range(seq) == {seq[k] : k \in 1..Len(seq)}

\* chunk executions that returned a non-zero code
FailedChunks ==
    {i \in Finished : fout[i].kind = "return" /\ fout[i].rc # 0}

\* the control thread is past the with-block of stage 4
LeftFanout == pc \notin {"implement", "submit", "as_completed", "pool_exit"}

\* C6: when some chunk execution returned a non-zero code, the merge stage is
\* never started in that run and the run, once over, has ended with exit
\* code 1, whatever the other chunks returned
C6_AnyChunkFailureIsFatal ==
    FailedChunks # {} =>
        /\ "merge" \notin Range(invoked)
        /\ pc \notin {"merge", "verify", "done"}
        /\ (pc \in {"exited", "crashed"} => exit_code = 1)
        /\ (pc = "impl_check" => impl_failures = Cardinality(FailedChunks))

\* C6 witness: three chunks, exactly one of them failed, the run exited with
\* code 1 without a merge
C6_Witness ==
    /\ Len(subtasks) = 3
    /\ Cardinality(FailedChunks) = 1
    /\ \A i \in ChunkIds \ FailedChunks : fout[i] = Ret(0, "done")
    /\ pc = "exited" /\ exit_code = 1
    /\ "merge" \notin Range(invoked)

\* C7: the control thread is past the fan-out (at the failure check, in
\* merge, or out of the run) only when every chunk execution has finished
C7_FanoutIsBarrier ==
    LeftFanout => \A i \in ChunkIds : fstate[i] = "finished"

\* C7 witness: the first chunk raised while others were still to run; the
\* run ended with that exception after all of them had finished
C7_Witness ==
    /\ Len(subtasks) = MaxChunks
    /\ pc = "crashed"
    /\ yielded = {1} /\ fout[1].kind = "raise"
    /\ \A i \in ChunkIds : fstate[i] = "finished"

\* C8: at most min(4, number of chunks of the manifest) chunk executions are
\* in progress at any moment
C8_PoolBound ==
    Cardinality(Running) <= Min(4, Len(subtasks))

\* C8 witness: five chunks, four of them running and the fifth still queued
C8_Witness ==
    /\ Len(subtasks) = 5
    /\ Cardinality(Running) = 4
    /\ fstate[5] = "queued"

\* C9 (fails): a chunk execution is started only when every chunk named in
\* its depends_on has finished
C9_DependenciesRespected ==
    \A i \in ChunkIds :
        fstate[i] \in {"running", "finished"} =>
            \A j \in subtasks[i].depends_on : fstate[j] = "finished"

\* ------------------------------------------------------------------------
\* Merge engine: two invocations of action_merge_results on one output path
\* ------------------------------------------------------------------------
\* no `run` is in progress
NoRun ==
    /\ resume = FALSE
    /\ force_stage = None
    /\ mode = "full"
    /\ skip_stages = {}
    /\ pc = "idle"
    /\ invoked = <<>>
    /\ skipped = {}
    /\ exit_code = 0
    /\ last_rc = 0

\* the per-chunk result files of a manifest of n subtasks (some may be
\* missing, some may hold JSON that is not an object), and possibly a merged
\* output left by an earlier merge
InitMerge ==
    /\ \E n \in 0..MaxInputs :
            chunk_files \in [1..n -> {"absent", "done", "failed", "malformed"}]
    /\ \E prev \in {"absent", "done"} :
            dir = [AfterSplitDir EXCEPT !["implement"] = prev]
    /\ mpc = [p \in Procs |-> "start"]
    /\ lock_holder = {}
    /\ mresults = [p \in Procs |-> <<>>]
    /\ out_writer = {}
    /\ mrc = [p \in Procs |-> 0]

\* lines 728-740: the glob is expanded and every input file is loaded
LoadInputs(p) ==
    /\ mpc[p] = "start"
    /\ mresults' = [mresults EXCEPT ![p] = chunk_files]
    /\ mpc' = [mpc EXCEPT ![p] = "loaded"]
    /\ UNCHANGED <<lock_holder, out_writer, mrc>>
    /\ UNCHANGED <<driverVars, fanoutVars, routeVars, leafVars>>

\* mutant: the lock is granted whoever holds it
FlockAlwaysGranted(holders) == TRUE

\* fcntl.flock(fd, LOCK_EX | LOCK_NB) succeeds iff no other open file
\* description holds the lock; it never waits
FlockGranted(holders) == holders = {}

\* lines 742-746: lock = acquire_lock(out); on failure return 1
AcquireLock(p) ==
    /\ mpc[p] = "loaded"
    /\ IF FlockGranted(lock_holder)
       THEN /\ lock_holder' = lock_holder \cup {p}
            /\ mpc' = [mpc EXCEPT ![p] = "locked"]
            /\ UNCHANGED mrc
       ELSE /\ mpc' = [mpc EXCEPT ![p] = "lock_failed"]
            /\ mrc' = [mrc EXCEPT ![p] = 1]
            /\ UNCHANGED lock_holder
    /\ UNCHANGED <<mresults, out_writer>>
    /\ UNCHANGED <<driverVars, fanoutVars, routeVars, leafVars>>

\* as_payload(r).get("status", ...) on a result that is not an object
\* raises AttributeError
AggregationRaises(results) ==
    \E i \in DOMAIN results : results[i] = "malformed"

\* lines 748-834: aggregate what was loaded and write the output file, or
\* raise inside the try block
WriteMerged(p) ==
    /\ mpc[p] = "locked"
    /\ IF AggregationRaises(mresults[p])
       THEN /\ mrc' = [mrc EXCEPT ![p] = 1]
            /\ mpc' = [mpc EXCEPT ![p] = "raising"]
            /\ UNCHANGED <<dir, out_writer>>
       ELSE /\ LET o == run_merge(dir, mresults[p], TRUE) IN
                 /\ dir' = WriteFile(dir, "implement", o.wrote)
                 /\ mrc' = [mrc EXCEPT ![p] = o.rc]
            /\ out_writer' = out_writer \cup {p}
            /\ mpc' = [mpc EXCEPT ![p] = "written"]
    /\ UNCHANGED <<lock_holder, mresults>>
    /\ UNCHANGED <<chunk_files, resume, force_stage, mode, skip_stages, pc,
                   invoked, skipped, exit_code, last_rc>>
    /\ UNCHANGED <<fanoutVars, routeVars, leafVars>>

\* mutant: the lock is released after the return statements only
ReleaseLockOnReturnOnly(p) ==
    /\ mpc[p] \in {"written", "raising"}
    /\ lock_holder' = IF mpc[p] = "written" THEN lock_holder \ {p}
                       ELSE lock_holder
    /\ mpc' = [mpc EXCEPT ![p] = IF mpc[p] = "written" THEN "returned"
                                   ELSE "raised"]
    /\ UNCHANGED <<mresults, out_writer, mrc>>
    /\ UNCHANGED <<driverVars, fanoutVars, routeVars, leafVars>>

\* lines 835-837: finally: release_lock(lock), on a return and on an
\* exception alike
ReleaseLock(p) ==
    /\ mpc[p] \in {"written", "raising"}
    /\ lock_holder' = lock_holder \ {p}
    /\ mpc' = [mpc EXCEPT ![p] = IF mpc[p] = "written" THEN "returned"
                                   ELSE "raised"]
    /\ UNCHANGED <<mresults, out_writer, mrc>>
    /\ UNCHANGED <<driverVars, fanoutVars, routeVars, leafVars>>

NextMerge ==
    \/ \E p \in Procs : LoadInputs(p)
    \/ \E p \in Procs : AcquireLock(p)
    \/ \E p \in Procs : WriteMerged(p)
    \/ \E p \in Procs : ReleaseLock(p)

MergeInit == InitMerge /\ NoRun /\ IdleFanout /\ IdleRoute /\ IdleLeaf

SpecMerge == MergeInit /\ [][NextMerge]_vars

\* ------------------------------------------------------------------------
\* Properties of the merge lock
\* ------------------------------------------------------------------------
\* the invocation is between acquire_lock and release_lock
InCriticalSection(p) == mpc[p] \in {"locked", "written", "raising"}

\* the invocation has acquired the lock at some point
HasAcquired(p) ==
    mpc[p] \in {"locked", "written", "raising", "returned", "raised"}

\* the invocation has read at least one input result file
HasReadInput(p) == \E i \in DOMAIN mresults[p] : mresults[p][i] # "absent"

\* C4: at most one of the concurrent merges is between acquire_lock and
\* release_lock; the one refused the lock has returned 1 at once (it holds
\* nothing, waits for nothing) and has not written the output file
C4_MergeLockExclusive ==
    /\ Cardinality({p \in Procs : InCriticalSection(p)}) <= 1
    /\ \A p \in Procs :
         mpc[p] = "lock_failed" =>
            /\ mrc[p] = 1
            /\ p \notin out_writer
            /\ p \notin lock_holder
            /\ ~ENABLED AcquireLock(p)
            /\ ~ENABLED WriteMerged(p)

\* C4 witness: invocation 1 holds the lock and has written the output,
\* invocation 2 was refused the lock and returned 1; the output is the
\* one of invocation 1 alone
C4_Witness ==
    /\ mpc[1] = "written" /\ mpc[2] = "lock_failed"
    /\ mrc[2] = 1
    /\ out_writer = {1}

\* C5 (fails): an invocation that has read an input result file has acquired
\* the lock before
C5_LockBeforeRead ==
    \A p \in Procs : HasReadInput(p) => HasAcquired(p)

\* ------------------------------------------------------------------------
\* Routing of one chunk: action_split_task, then action_run_implement
\* ------------------------------------------------------------------------
\* values of the "role" field of a plan chunk or task subtask
RoleValues ==
    {"absent", "architect", "builder", " Architect ", "BUILDER", "claude",
     "codex", "reviewer"}

\* values of the "owner" field
OwnerValues == {"absent", "claude", "codex", "human"}

\* str(value).strip().lower()
StripLower(text) ==
    CASE text = " Architect " -> "architect"
      [] text = "BUILDER" -> "builder"
      [] OTHER -> text

\* normalize_subtask_role(subtask)
normalize_subtask_role(subtask) ==
    IF subtask.role # "absent"
          /\ StripLower(subtask.role) \in {"architect", "builder"}
    THEN StripLower(subtask.role)
    ELSE IF subtask.owner = "claude" THEN "architect"
    ELSE IF subtask.owner = "codex" THEN "builder"
    ELSE "builder"

\* owner = "claude" if role == "architect" else "codex"
OwnerOfRole(role) == IF role = "architect" THEN "claude" ELSE "codex"

\* the manifest entry action_split_task writes for a plan-supplied chunk:
\* role = chunk.get("role", "builder"), taken as it is
SplitPlanChunk(chunk) ==
    LET role == IF chunk.role = "absent" THEN "builder" ELSE chunk.role
    IN [role |-> role, owner |-> OwnerOfRole(role)]

\* the manifest entry action_split_task writes for a task subtask
SplitTaskSubtask(entry) ==
    LET role == normalize_subtask_role(entry)
    IN [role |-> role, owner |-> OwnerOfRole(role)]

\* the command action_run_implement invokes for a manifest entry
ExecutorOf(subtask) ==
    IF normalize_subtask_role(subtask) = "architect"
    THEN "CLAUDE_CODE_CMD" ELSE "CODEX_CLI_CMD"

InitRoute ==
    /\ rsource \in {"plan", "task"}
    /\ rentry \in [role : RoleValues, owner : OwnerValues]
    /\ rdispatch = [role |-> "absent", owner |-> "absent"]
    /\ rexecutor = "none"
    /\ rpc = "split"

\* action_split_task: plan chunks when the plan supplies some, else the
\* task's subtasks
SplitTask ==
    /\ rpc = "split"
    /\ rdispatch' = IF rsource = "plan" THEN SplitPlanChunk(rentry)
                    ELSE SplitTaskSubtask(rentry)
    /\ rpc' = "implement"
    /\ UNCHANGED <<rsource, rentry, rexecutor>>
    /\ UNCHANGED <<driverVars, fanoutVars, mergeVars, leafVars>>

\* action_run_implement on the manifest entry of the chunk
RunImplement ==
    /\ rpc = "implement"
    /\ rexecutor' = ExecutorOf(rdispatch)
    /\ rpc' = "invoked"
    /\ UNCHANGED <<rsource, rentry, rdispatch>>
    /\ UNCHANGED <<driverVars, fanoutVars, mergeVars, leafVars>>

NextRoute == SplitTask \/ RunImplement

RouteInit ==
    /\ InitRoute /\ NoRun /\ IdleFanout /\ IdleMerge /\ IdleLeaf
    /\ dir = AfterSplitDir /\ chunk_files = <<>>

SpecRoute == RouteInit /\ [][NextRoute]_vars

\* the executor class a source entry designates: its role with the aliases
\* normalized, the owner alias when the entry names no role, else builder
DesignatedRole(entry) ==
    LET role == StripLower(entry.role) IN
    IF role \in {"architect", "claude"} THEN "architect"
    ELSE IF role \in {"builder", "codex"} THEN "builder"
    ELSE IF entry.owner = "claude" THEN "architect"
    ELSE "builder"

\* C10 (fails): every chunk is invoked on the executor its role or owner
\* designates, aliases normalized, whether the manifest entry came from a
\* task subtask or from a plan-supplied chunk
C10_RoutedByRole ==
    rpc = "invoked" =>
        rexecutor = IF DesignatedRole(rentry) = "architect"
                    THEN "CLAUDE_CODE_CMD" ELSE "CODEX_CLI_CMD"

\* ------------------------------------------------------------------------
\* Executor invocation: run_agent_command, called again and again in one
\* process
\* ------------------------------------------------------------------------
Envelope(status, rc, att, stderr) ==
    [status |-> status, return_code |-> rc, attempt |-> att,
     stderr |-> stderr]

\* lines 194-202 (the simulated envelope has "retries": 0 and no attempt)
SimulatedEnvelope == Envelope("simulated", 0, 0, "")

\* mutant: a timeout is recorded like an exit with status 1
TimeoutEnvelopeAsExit(att) == Envelope("failed", 1, att, "")

\* lines 231-242: subprocess.TimeoutExpired
TimeoutEnvelope(att) == Envelope("failed", -1, att, "Command timed out")

\* lines 247-259: the process exited with rc
ExitEnvelope(rc, att) ==
    Envelope(IF rc = 0 THEN "passed" ELSE "failed", rc, att, "")

\* lines 267-277: the loop body never ran
NoAttemptEnvelope(att) == Envelope("failed", 1, att, "no attempt made")

\* mutant: a missing command is a soft failure of the retry loop
EntrySoftFailure(command, allow_simulation) ==
    IF command = "" /\ allow_simulation THEN "simulated" ELSE "loop"

\* lines 189-202: what happens before the loop
Entry(command, allow_simulation) ==
    IF command = ""
    THEN IF ~allow_simulation THEN "raise" ELSE "simulated"
    ELSE "loop"

\* mutant: one attempt too many
HasNextAttemptOffByOne(att, max_retries) == att <= max_retries

\* line 208: for attempt in range(1, max_retries + 1)
HasNextAttempt(att, max_retries) == att < max_retries

\* lines 244-245, 264-265: if attempt < max_retries: time.sleep(...)
SleepsAfter(att, max_retries) == att < max_retries

\* how one spawned process ends: exit status 0, a non-zero exit status, or
\* no exit within CLI_TIMEOUT_SECONDS
Outcomes == {"exit0", "exit1", "timeout"}

\* an entry of the log: "call", "raise", "return", "retry_sleep", or the
\* end of a spawned process ("exit" with its status, "timeout")
Event(ev, att, rc) == [ev |-> ev, attempt |-> att, rc |-> rc]

\* the environment of the process
InitAgent ==
    /\ aenv \in [max_retries : 0..MaxRetries, simulate : BOOLEAN,
                 rate_limit : {0, 1}]
    /\ acommand = ""
    /\ apc = "idle"
    /\ attempt = 0
    /\ alast = NoEnvelope
    /\ aret = NoEnvelope
    /\ alog = <<>>
    /\ acalls = 0

\* run_agent_command(agent, command, payload) up to the loop (lines 183-206)
AgentCall ==
    /\ apc \in {"idle", "returned", "raised"}
    /\ acalls < MaxCalls
    /\ \E command \in {"", "cmd"} :
         LET branch == Entry(command, aenv.simulate)
             log1 == Append(alog, Event("call", 0, 0))
         IN /\ acommand' = command
            /\ apc' = CASE branch = "raise" -> "raised"
                        [] branch = "simulated" -> "returned"
                        [] OTHER -> "loop"
            /\ aret' = IF branch = "simulated" THEN SimulatedEnvelope
                       ELSE NoEnvelope
            /\ alog' = CASE branch = "raise" ->
                                Append(log1, Event("raise", 0, 0))
                         [] branch = "simulated" ->
                                Append(log1, Event("return", 0, 0))
                         [] OTHER -> log1
    /\ acalls' = acalls + 1
    /\ attempt' = 0
    /\ alast' = NoEnvelope
    /\ UNCHANGED aenv
    /\ UNCHANGED <<statusVars, reconVars, leaf2Vars, leaf3Vars>>
    /\ UNCHANGED <<driverVars, fanoutVars, mergeVars, routeVars>>

\* one iteration of the loop (lines 208-265): spawn, wait, build the
\* envelope, return it or keep it as `last` and sleep
AgentAttempt ==
    /\ apc = "loop"
    /\ HasNextAttempt(attempt, aenv.max_retries)
    /\ \E outcome \in Outcomes :
         LET att == attempt + 1
             result == CASE outcome = "timeout" -> TimeoutEnvelope(att)
                         [] outcome = "exit0" -> ExitEnvelope(0, att)
                         [] OTHER -> ExitEnvelope(1, att)
             ended == Event(IF outcome = "timeout" THEN "timeout" ELSE "exit",
                            att, result.return_code)
         IN /\ attempt' = att
            /\ IF outcome = "exit0"
               THEN /\ aret' = result
                    /\ apc' = "returned"
                    /\ alog' = alog \o <<ended, Event("return", att, 0)>>
                    /\ UNCHANGED alast
               ELSE /\ alast' = result
                    /\ alog' = alog \o <<ended>> \o
                          (IF SleepsAfter(att, aenv.max_retries)
                           THEN <<Event("retry_sleep", att, 0)>> ELSE <<>>)
                    /\ UNCHANGED <<aret, apc>>
    /\ UNCHANGED <<aenv, acommand, acalls>>
    /\ UNCHANGED <<statusVars, reconVars, leaf2Vars, leaf3Vars>>
    /\ UNCHANGED <<driverVars, fanoutVars, mergeVars, routeVars>>

\* the loop is over (lines 267-278): return last, or the envelope of an
\* invocation that made no attempt
AgentExhausted ==
    /\ apc = "loop"
    /\ ~HasNextAttempt(attempt, aenv.max_retries)
    /\ aret' = IF alast = NoEnvelope THEN NoAttemptEnvelope(attempt)
               ELSE alast
    /\ apc' = "returned"
    /\ alog' = Append(alog, Event("return", attempt, 0))
    /\ UNCHANGED <<aenv, acommand, attempt, alast, acalls>>
    /\ UNCHANGED <<statusVars, reconVars, leaf2Vars, leaf3Vars>>
    /\ UNCHANGED <<driverVars, fanoutVars, mergeVars, routeVars>>

NextAgent == AgentCall \/ AgentAttempt \/ AgentExhausted

AgentInit ==
    /\ InitAgent /\ IdleStatus /\ IdleRecon /\ IdleLeaf2 /\ IdleLeaf3
    /\ NoRun /\ IdleFanout /\ IdleMerge /\ IdleRoute
    /\ dir = AfterSplitDir /\ chunk_files = <<>>

SpecAgent == AgentInit /\ [][NextAgent]_vars

\* ------------------------------------------------------------------------
\* Properties of the executor invocation
\* ------------------------------------------------------------------------
\* position in the log of the "call" of the invocation in progress (or of
\* the last one)
CallStart ==
    CHOOSE k \in 1..Len(alog) :
        /\ alog[k].ev = "call"
        /\ \A j \in (k + 1)..Len(alog) : alog[j].ev # "call"

\* what the current invocation did
CurLog == IF acalls = 0 THEN <<>> ELSE SubSeq(alog, CallStart, Len(alog))

\* the entry is the end of a spawned process
IsAttempt(e) == e.ev \in {"exit", "timeout"}

\* the attempts of the current invocation, in order
Attempts == SelectSeq(CurLog, IsAttempt)

C12_TimeoutIsAFailedAttempt ==
    (acalls > 0 /\ acommand # "") =>
        LET cur == CurLog
            n == Len(Attempts)
            TimedOut(att) == [status |-> "failed", return_code |-> -1,
                              attempt |-> att, stderr |-> "Command timed out"]
        IN /\ \A k \in 1..n :
                Attempts[k].ev = "timeout" =>
                    /\ Attempts[k].attempt = k
                    /\ Attempts[k].rc = -1
                    /\ (k = n /\ apc = "loop") => alast = TimedOut(k)
                    /\ k = aenv.max_retries => n = k
                    /\ (k < aenv.max_retries /\ apc = "returned") => n > k
           /\ \A k \in 1..Len(cur) :
                cur[k].ev = "timeout" =>
                    (cur[k].attempt < aenv.max_retries
                        <=> (k < Len(cur) /\ cur[k + 1].ev = "retry_sleep"))
           /\ ( /\ apc = "returned" /\ n > 0
                /\ \A k \in 1..n : Attempts[k].ev = "timeout" )
                => /\ n = aenv.max_retries
                   /\ aret = TimedOut(aenv.max_retries)

\* every attempt of a returned invocation timed out, with a retry
C12_Witness ==
    /\ apc = "returned" /\ acommand # ""
    /\ aenv.max_retries = 2
    /\ Len(Attempts) = 2
    /\ \A k \in 1..2 : Attempts[k].ev = "timeout"
    /\ aret.return_code = -1 /\ aret.attempt = 2

\* C13: without a command and without simulation the invocation raises at
\* once: no process is spawned, nothing is retried, no envelope is returned
C13_ConfigErrorIsFatal ==
    (acalls > 0 /\ acommand = "" /\ ~aenv.simulate) =>
        /\ apc = "raised"
        /\ aret = NoEnvelope
        /\ CurLog = <<Event("call", 0, 0), Event("raise", 0, 0)>>

\* the second invocation of a process raised for its missing command
C13_Witness ==
    /\ apc = "raised" /\ acommand = "" /\ ~aenv.simulate
    /\ acalls = 2 /\ aenv.max_retries = 2

\* C14 (fails): with the simulation toggle on, an invocation returns the
\* simulated envelope and spawns no process, whatever the command string
C14_SimulationSpawnsNothing ==
    (acalls > 0 /\ aenv.simulate) =>
        /\ Attempts = <<>>
        /\ apc # "raised"
        /\ apc = "returned" => aret.status = "simulated"

\* C15 (fails): the first invocation of the process is never delayed, and
\* every later one is preceded by the rate-limit delay exactly when the
\* configured rate limit is greater than 0
C15_RateLimitedAfterFirstCall ==
    \A k \in 1..Len(alog) :
        alog[k].ev = "call" =>
            LET first == \A j \in 1..(k - 1) : alog[j].ev # "call"
                delayed == k > 1 /\ alog[k - 1].ev = "rate_sleep"
            IN IF first THEN ~delayed
               ELSE delayed <=> aenv.rate_limit > 0

\* ------------------------------------------------------------------------
\* build_report_status applied to one sequence of statuses
\* ------------------------------------------------------------------------
\* statuses a payload may carry; "unknown" stands for any other string
StatusValues ==
    {"failed", "skipped", "blocked", "simulated", "passed", "ready", "done",
     "unknown"}

InitStatus ==
    /\ bvalues \in UNION {[1..n -> StatusValues] : n \in 0..MaxValues}
    /\ bstatus = "none"
    /\ bpc = "call"

BuildReportStatus ==
    /\ bpc = "call"
    /\ bstatus' = build_report_status(bvalues)
    /\ bpc' = "done"
    /\ UNCHANGED bvalues
    /\ UNCHANGED <<agentVars, reconVars, leaf2Vars, leaf3Vars>>
    /\ UNCHANGED <<driverVars, fanoutVars, mergeVars, routeVars>>

NextStatus == BuildReportStatus

StatusInit ==
    /\ InitStatus /\ IdleAgent /\ IdleRecon /\ IdleLeaf2 /\ IdleLeaf3
    /\ NoRun /\ IdleFanout /\ IdleMerge /\ IdleRoute
    /\ dir = AfterSplitDir /\ chunk_files = <<>>

SpecStatus == StatusInit /\ [][NextStatus]_vars

\* the statuses that decide the aggregate, strongest first, and what each
\* one gives
StatusPrecedence ==
    <<"failed", "skipped", "blocked", "simulated", "passed", "ready">>

StatusGives(status) ==
    CASE status \in {"failed", "skipped"} -> "failed"
      [] status = "blocked" -> "blocked"
      [] status \in {"simulated", "passed"} -> "done"
      [] OTHER -> "ready"

\* the aggregate of a set of statuses by strict precedence
StatusOfSet(present) ==
    LET deciding == {k \in 1..Len(StatusPrecedence) :
                        StatusPrecedence[k] \in present}
    IN IF deciding = {} THEN "done"
       ELSE StatusGives(StatusPrecedence[
                CHOOSE k \in deciding : \A j \in deciding : k <= j])

\* C16: build_report_status is total and depends only on the set of the
\* statuses of its input, by the precedence failed > skipped (failed) >
\* blocked > simulated (done) > passed (done) > ready > done; in particular
\* [blocked, failed] gives failed, [simulated] gives done, [] gives done
C16_StatusPrecedence ==
    bpc = "done" =>
        /\ bstatus \in {"failed", "blocked", "done", "ready"}
        /\ bstatus = StatusOfSet(Range(bvalues))
        /\ bvalues = <<"blocked", "failed">> => bstatus = "failed"
        /\ bvalues = <<"simulated">> => bstatus = "done"
        /\ bvalues = <<>> => bstatus = "done"

\* a weaker status first and twice, the stronger one last
C16_Witness ==
    /\ bpc = "done"
    /\ bvalues = <<"blocked", "blocked", "failed">>
    /\ bstatus = "failed"

\* ------------------------------------------------------------------------
\* Merge reconciliation: action_merge_results, run again with the same
\* arguments
\* ------------------------------------------------------------------------
\* f"{args.kind}_{work_id}.json", the name the glob loop skips
CanonicalName == "implement_W.json"

\* --input: the glob the bridge constructs, a wider glob, a single path
InputPatterns ==
    {"implement_W_*.json", "implement_W*.json", "implement_W_S01.json"}

IsGlob(pattern) == pattern \in {"implement_W_*.json", "implement_W*.json"}

\* base.glob(pattern.name)
Matches(pattern, name) ==
    IF pattern = "implement_W*.json"
    THEN name \in Range(BaseNames)
    ELSE name \in Range(BaseNames) \ {CanonicalName}

\* --out
OutPaths == {CanonicalName, "implement_W_merged.json", OutsideName}

\* --dispatch: not given, a path without a file, a file that is not JSON, a
\* JSON array, or a manifest whose entries carry a subtask id or none
DispatchValues ==
    {[kind |-> k, ids |-> <<>>] :
        k \in {"none", "notfound", "unreadable", "list"}}
    \cup {[kind |-> "manifest", ids |-> ids] :
            ids \in UNION {[1..n -> {"S01", "S02", "noid"}] :
                              n \in 0..MaxManifest}}

\* the keys of a payload the merge reads; a per-chunk result has the first
\* two, a merged result has no subtask
Payload(status, sid, count, questions, expected, missing, results) ==
    [status |-> status, sid |-> sid, count |-> count,
     questions |-> questions, expected |-> expected, missing |-> missing,
     results |-> results]

ChunkPayload(status, sid) ==
    Payload(status, sid, 0, <<>>, <<>>, <<>>, <<>>)

\* sha256 of the sorted-key JSON of the payload alone
Checksum(payload) == <<"sha256", payload>>

\* write_with_meta: the report written to the path
write_with_meta(agent, payload, clock) ==
    [present |-> TRUE, agent |-> agent, generated_at |-> clock,
     checksum |-> Checksum(payload), payload |-> payload]

\* what subtask_results keeps of a loaded result
Digest(payload) ==
    [status |-> payload.status, sid |-> payload.sid, count |-> payload.count]

Question(q, id) == [q |-> q, id |-> id]

\* lines 733-740: the files loaded, in order
InputNames(files, pattern) ==
    IF IsGlob(pattern)
    THEN SelectSeq(BaseNames,
                   LAMBDA name : /\ Matches(pattern, name)
                                 /\ files[name].present
                                 /\ name # CanonicalName)
    ELSE IF files[pattern].present THEN <<pattern>> ELSE <<>>

RECURSIVE CarriedQuestions(_)
\* open_questions.extend(payload.get("open_questions")) over the results
CarriedQuestions(results) ==
    IF results = <<>> THEN <<>>
    ELSE Head(results).questions \o CarriedQuestions(Tail(results))

MergeOutcome(rc, raised, locked, wrote, consumed) ==
    [rc |-> rc, raised |-> raised, locked |-> locked, wrote |-> wrote,
     consumed |-> consumed]

\* mutant: an empty input set is reported as a success
EmptyMergeSucceeds(clock, consumed) ==
    MergeOutcome(0, FALSE, TRUE,
        write_with_meta("merge",
            Payload("done", "none", 0, <<>>, <<>>, <<>>, <<>>), clock),
        consumed)

\* lines 748-761: nothing was found
EmptyMerge(clock, consumed) ==
    MergeOutcome(2, FALSE, TRUE,
        write_with_meta("merge",
            Payload("blocked", "none", 0,
                    <<Question("no_artifacts", "")>>, <<>>, <<>>, <<>>),
            clock),
        consumed)

\* mutant: missing subtasks do not touch the status
ReconciledStatusIgnoresMissing(status, dispatch_load_failed, missing) ==
    IF dispatch_load_failed THEN "failed" ELSE status

\* lines 815-819
ReconciledStatus(status, dispatch_load_failed, missing) ==
    IF dispatch_load_failed THEN "failed"
    ELSE IF missing # <<>> /\ status \notin {"failed", "blocked"}
         THEN "failed"
    ELSE status

\* mutant: every entry of the manifest is missing
MissingSubtasksAll(expected, carried) == expected

\* lines 809-813
MissingSubtasks(expected, carried) ==
    SelectSeq(expected, LAMBDA id : id \notin carried)

\* action_merge_results on the files as they are
action_merge_results(files, args, clock, lock_free) ==
    LET names == InputNames(files, args.input)
        results == [k \in 1..Len(names) |-> files[names[k]].payload]
        status0 == build_report_status(
                       [k \in 1..Len(results) |-> results[k].status])
        dispatch_load_failed ==
            args.dispatch.kind \in {"notfound", "unreadable"}
        expected ==
            IF args.dispatch.kind = "manifest"
            THEN SelectSeq(args.dispatch.ids, LAMBDA id : id # "noid")
            ELSE <<>>
        carried == {results[k].sid : k \in 1..Len(results)} \ {"none"}
        missing == MissingSubtasks(expected, carried)
        questions ==
            CarriedQuestions(results)
            \o [k \in 1..Len(missing) |-> Question("missing", missing[k])]
            \o (IF dispatch_load_failed
                THEN <<Question("dispatch_not_loaded", "")>> ELSE <<>>)
        status == ReconciledStatus(status0, dispatch_load_failed, missing)
        merged ==
            Payload(status, "none", Len(results), questions, expected,
                    missing, [k \in 1..Len(results) |-> Digest(results[k])])
    IN IF ~lock_free
       THEN MergeOutcome(1, FALSE, FALSE, NoFile, names)
       ELSE IF names = <<>> THEN EmptyMerge(clock, names)
       ELSE IF args.dispatch.kind = "list"
            THEN MergeOutcome(1, TRUE, TRUE, NoFile, names)
       ELSE MergeOutcome(IF status \notin {"failed", "blocked"} THEN 0 ELSE 2,
                         FALSE, TRUE,
                         write_with_meta("implement", merged, clock), names)

\* per-chunk result files as action_run_implement left them, and the
\* arguments of the merge
InitRecon ==
    /\ \E chunks \in [{"implement_W_S01.json", "implement_W_S02.json"} ->
                        {NoFile} \cup
                        {write_with_meta("codex", ChunkPayload(st, sid), 0) :
                            st \in {"done", "failed", "blocked"},
                            sid \in {"S01", "S02", "none"}}] :
         gfiles = [n \in FileNames |->
                     IF n \in DOMAIN chunks THEN chunks[n] ELSE NoFile]
    /\ gargs \in [input : InputPatterns, out : OutPaths,
                  dispatch : DispatchValues]
    /\ gclock = 1
    /\ gruns = <<>>

\* one run of the merge; the lock on <out>.lock is free or held elsewhere
MergeResults ==
    /\ Len(gruns) < MaxRuns
    /\ \E lock_free \in BOOLEAN :
         LET o == action_merge_results(gfiles, gargs, gclock, lock_free)
         IN /\ gfiles' = IF o.wrote.present
                         THEN [gfiles EXCEPT ![gargs.out] = o.wrote]
                         ELSE gfiles
            /\ gruns' = Append(gruns, o)
    /\ gclock' = gclock + 1
    /\ UNCHANGED gargs
    /\ UNCHANGED <<agentVars, statusVars, leaf2Vars, leaf3Vars>>
    /\ UNCHANGED <<driverVars, fanoutVars, mergeVars, routeVars>>

NextRecon == MergeResults

ReconInit ==
    /\ InitRecon /\ IdleAgent /\ IdleStatus /\ IdleLeaf2 /\ IdleLeaf3
    /\ NoRun /\ IdleFanout /\ IdleMerge /\ IdleRoute
    /\ dir = AfterSplitDir /\ chunk_files = <<>>

SpecRecon == ReconInit /\ [][NextRecon]_vars

\* ------------------------------------------------------------------------
\* Properties of the merge reconciliation
\* ------------------------------------------------------------------------
\* the runs that wrote a merged result from at least one input result
Reconciled ==
    {r \in 1..Len(gruns) :
        gruns[r].wrote.present /\ gruns[r].consumed # <<>>}

\* the subtask ids of the manifest, in manifest order
ManifestIds == SelectSeq(gargs.dispatch.ids, LAMBDA id : id # "noid")

\* the subtask ids the input results of a run carry (a merged result that
\* was picked up as an input carries none)
CarriedIds(r) ==
    {gfiles[name].payload.sid : name \in Range(gruns[r].consumed)}
        \ {"none"}

\* expected_subtasks, missing_subtasks and the open questions of a run are
\* those of the manifest
ManifestReconciled(r) ==
    LET merged == gruns[r].wrote.payload
        missing == SelectSeq(ManifestIds, LAMBDA id : id \notin CarriedIds(r))
        n == Len(merged.questions)
    IN /\ merged.expected = ManifestIds
       /\ merged.missing = missing
       /\ n >= Len(missing)
       /\ SubSeq(merged.questions, n - Len(missing) + 1, n)
            = [k \in 1..Len(missing) |-> Question("missing", missing[k])]
       /\ gargs.out \notin Range(gruns[r].consumed) => n = Len(missing)

\* the manifest lists S01 and S02 and the only input result is S01's
OnlyS01Present(r) ==
    /\ ManifestIds = <<"S01", "S02">>
    /\ Len(gruns[r].consumed) = 1
    /\ CarriedIds(r) = {"S01"}

\* C17 as stated (fails): with a manifest and at least one input result,
\* expected_subtasks is the manifest's list of ids, missing_subtasks the
\* expected ids no input result carries, in manifest order, each adding one
\* open question; with manifest {S01, S02} and only S01's result,
\* missing_subtasks = [S02] and the status is failed
C17_MissingSubtasksOriginal ==
    \A r \in Reconciled :
        gargs.dispatch.kind = "manifest" =>
            /\ ManifestReconciled(r)
            /\ OnlyS01Present(r) =>
                    /\ gruns[r].wrote.payload.missing = <<"S02">>
                    /\ gruns[r].wrote.payload.status = "failed"

\* C17 (amended): as above, but in the example the status is failed unless
\* S01's result is itself blocked, and then it is blocked
C17_MissingSubtasks ==
    \A r \in Reconciled :
        gargs.dispatch.kind = "manifest" =>
            /\ ManifestReconciled(r)
            /\ OnlyS01Present(r) =>
                    /\ gruns[r].wrote.payload.missing = <<"S02">>
                    /\ gruns[r].wrote.payload.status =
                         IF gruns[r].wrote.payload.results[1].status
                                = "blocked"
                         THEN "blocked" ELSE "failed"

\* manifest [S01, S02], S01's result done, S02's result absent
C17_Witness ==
    /\ Len(gruns) >= 1 /\ 1 \in Reconciled
    /\ gargs.dispatch = [kind |-> "manifest", ids |-> <<"S01", "S02">>]
    /\ gruns[1].consumed = <<"implement_W_S01.json">>
    /\ gfiles["implement_W_S01.json"].payload = ChunkPayload("done", "S01")
    /\ gruns[1].wrote.payload.missing = <<"S02">>
    /\ gruns[1].wrote.payload.status = "failed"
    /\ gruns[1].rc = 2

\* the run met a reconciliation error: an expected subtask without a
\* result, or a dispatch file that is not there or is not JSON
MissingError(r) ==
    /\ gargs.dispatch.kind = "manifest"
    /\ \E k \in 1..Len(ManifestIds) : ManifestIds[k] \notin CarriedIds(r)

LoadError == gargs.dispatch.kind \in {"notfound", "unreadable"}

\* the error of the run is among the open questions of its merged result
ErrorRecorded(r) ==
    LET questions == Range(gruns[r].wrote.payload.questions)
    IN /\ LoadError => Question("dispatch_not_loaded", "") \in questions
       /\ MissingError(r) =>
            \A k \in 1..Len(ManifestIds) :
                ManifestIds[k] \notin CarriedIds(r) =>
                    Question("missing", ManifestIds[k]) \in questions

\* the statuses of the input results of a run
FoundStatuses(r) ==
    {gruns[r].wrote.payload.results[k].status :
        k \in 1..Len(gruns[r].wrote.payload.results)}

C19_EmptyInputIsBlocked ==
    \A r \in 1..Len(gruns) :
        gruns[r].consumed = <<>> =>
            /\ gruns[r].rc # 0
            /\ gruns[r].locked =>
                 /\ gruns[r].rc = 2
                 /\ gruns[r].wrote.present
                 /\ gruns[r].wrote.payload.status = "blocked"
                 /\ gruns[r].wrote.payload.count = 0
                 /\ gruns[r].wrote.payload.questions
                        = <<Question("no_artifacts", "")>>
                 /\ r = Len(gruns) => gfiles[gargs.out] = gruns[r].wrote

\* the second run of a wide glob finds only the first run's output, which
\* carries the canonical name and is skipped
C19_Witness ==
    /\ Len(gruns) = 2
    /\ gargs.input = "implement_W*.json" /\ gargs.out = CanonicalName
    /\ gruns[1].locked /\ gruns[2].locked
    /\ gruns[2].consumed = <<>>
    /\ gruns[2].rc = 2
    /\ gfiles[CanonicalName].payload.count = 0

\* C20 (fails): two runs of the same merge on unchanged per-chunk files
\* write the same checksum and the same payload, and a later run never
\* takes an earlier run's output as an input
C20_MergeIdempotent ==
    \A r1, r2 \in 1..Len(gruns) :
        (r1 < r2 /\ gruns[r1].wrote.present /\ gruns[r2].wrote.present) =>
            /\ gruns[r1].wrote.checksum = gruns[r2].wrote.checksum
            /\ gruns[r1].wrote.payload = gruns[r2].wrote.payload
            /\ gargs.out \notin Range(gruns[r2].consumed)

\* ------------------------------------------------------------------------
\* Review gate: action_review
\* ------------------------------------------------------------------------
\* a path that does not exist
NoResult == [exists |-> FALSE, status |-> "missing", open_questions |-> <<>>]

\* the open_questions list of a result payload
QuestionLists == {<<>>, <<"question">>}

\* a result file as a stage writes it; status "missing" is a payload without
\* the key
ResultFiles(statuses) ==
    {NoResult} \cup [exists : {TRUE}, status : statuses \cup {"missing"},
                     open_questions : QuestionLists]

\* plan_payload.get("status")
PlanStatus(plan) == IF plan.exists THEN plan.status ELSE "missing"

\* mutant: an implement result that is not there counts as done
ImplementStatusDefaultDone(implement) ==
    IF ~implement.exists \/ implement.status = "missing" THEN "done"
    ELSE implement.status

\* implement_payload.get("status") or "blocked"
ImplementStatus(implement) ==
    IF ~implement.exists \/ implement.status = "missing" THEN "blocked"
    ELSE implement.status

\* the payloads of the verify paths that exist, in argument order
VerifyPayloads(verify) == SelectSeq(verify, LAMBDA v : v.exists)

\* payload.get("open_questions", [])
PayloadQuestions(payload) ==
    IF payload.exists THEN payload.open_questions ELSE <<>>

\* open_questions.extend(verify.get("open_questions", []) or []), in order
RECURSIVE VerifyQuestions(_)
VerifyQuestions(payloads) ==
    IF payloads = <<>> THEN <<>>
    ELSE Head(payloads).open_questions \o VerifyQuestions(Tail(payloads))

action_review(plan, implement, verify) ==
    LET payloads == VerifyPayloads(verify)
        plan_status == PlanStatus(plan)
        implement_status == ImplementStatus(implement)
        not_passed == SelectSeq(payloads, LAMBDA v : v.status # "passed")
        flipped == \/ plan_status # "done"
                   \/ implement_status # "done"
                   \/ not_passed # <<>>
        required ==
            (IF plan_status # "done" THEN <<"plan">> ELSE <<>>)
            \o (IF implement_status # "done" THEN <<"implement">> ELSE <<>>)
            \o [k \in 1..Len(not_passed) |-> "verify"]
        all_open_questions ==
            VerifyQuestions(payloads) \o required
            \o PayloadQuestions(plan) \o PayloadQuestions(implement)
        go_no_go == flipped \/ all_open_questions # <<>>
        action_required ==
            IF all_open_questions # <<>> /\ ~flipped
            THEN Append(required, "open_questions") ELSE required
    IN [status |-> IF go_no_go THEN "blocked" ELSE "ready_for_merge",
        go_no_go |-> go_no_go,
        action_required |-> action_required,
        open_questions |-> all_open_questions,
        rc |-> IF go_no_go THEN 2 ELSE 0]

InitReview ==
    /\ vin \in [plan : ResultFiles({"done", "blocked"}),
                implement : ResultFiles({"done", "failed"}),
                verify : UNION {[1..n -> ResultFiles({"passed", "failed"})] :
                                    n \in 0..MaxVerify}]
    /\ vout = <<>>
    /\ vpc = "idle"

Review ==
    /\ vpc = "idle"
    /\ vout' = action_review(vin.plan, vin.implement, vin.verify)
    /\ vpc' = "returned"
    /\ UNCHANGED vin
    /\ UNCHANGED <<agentVars, statusVars, reconVars, splitVars, stageVars>>
    /\ UNCHANGED leaf3Vars
    /\ UNCHANGED <<driverVars, fanoutVars, mergeVars, routeVars>>

NextReview == Review

ReviewInit ==
    /\ InitReview /\ IdleAgent /\ IdleStatus /\ IdleRecon
    /\ IdleSplit /\ IdleStage /\ IdleLeaf3
    /\ NoRun /\ IdleFanout /\ IdleMerge /\ IdleRoute
    /\ dir = AfterSplitDir /\ chunk_files = <<>>

SpecReview == ReviewInit /\ [][NextReview]_vars

\* the four reasons of the claim, read off the input files
PlanNotDone == ~(vin.plan.exists /\ vin.plan.status = "done")

ImplementNotDone == ~(vin.implement.exists /\ vin.implement.status = "done")

SomeVerifyNotPassed ==
    \E k \in 1..Len(vin.verify) :
        vin.verify[k].exists /\ vin.verify[k].status # "passed"

SomeOpenQuestion ==
    \/ vin.plan.exists /\ vin.plan.open_questions # <<>>
    \/ vin.implement.exists /\ vin.implement.open_questions # <<>>
    \/ \E k \in 1..Len(vin.verify) :
           vin.verify[k].exists /\ vin.verify[k].open_questions # <<>>

\* C21: the review payload has go_no_go true exactly when the plan status is
\* not done, or the implement status is not done (no implement result counts
\* as blocked), or some verify result is not passed, or some input carries an
\* open question; the status is ready_for_merge with code 0 exactly when
\* go_no_go is false, otherwise blocked with code 2; plan done, implement done
\* and one failed verify give go_no_go true and blocked
C21_ReviewGate ==
    vpc = "returned" =>
        /\ vout.go_no_go = (\/ PlanNotDone \/ ImplementNotDone
                            \/ SomeVerifyNotPassed \/ SomeOpenQuestion)
        /\ IF vout.go_no_go
           THEN vout.status = "blocked" /\ vout.rc = 2
           ELSE vout.status = "ready_for_merge" /\ vout.rc = 0
        /\ (~vin.implement.exists =>
                "implement" \in Range(vout.action_required))
        /\ (/\ ~PlanNotDone /\ ~ImplementNotDone
            /\ Len(vin.verify) = 1 /\ vin.verify[1].exists
            /\ vin.verify[1].status = "failed")
           => (vout.go_no_go /\ vout.status = "blocked")

\* C21 witnesses: the example of the claim has been reviewed; a review with
\* nothing to object came out ready_for_merge; open questions alone blocked
C21_Witness ==
    /\ vpc = "returned"
    /\ ~PlanNotDone /\ ~ImplementNotDone /\ ~SomeOpenQuestion
    /\ Len(vin.verify) = 1 /\ vin.verify[1].exists
    /\ vin.verify[1].status = "failed"
    /\ vout.status = "blocked" /\ vout.rc = 2

C21_WitnessReady ==
    /\ vpc = "returned" /\ Len(vin.verify) = 2
    /\ vout.status = "ready_for_merge" /\ vout.rc = 0

C21_WitnessQuestions ==
    /\ vpc = "returned"
    /\ ~PlanNotDone /\ ~ImplementNotDone /\ ~SomeVerifyNotPassed
    /\ SomeOpenQuestion /\ vout.status = "blocked"

\* ------------------------------------------------------------------------
\* Work splitter: build_chunks_from_subtasks
\* ------------------------------------------------------------------------
\* estimated_minutes of a subtask: below 30, the two ends of the range, and
\* estimates that split in 2, 3 and 4
EstimateValues == {10, 30, 90, 91, 180, 181, 271}

\* estimated_minutes of a chunk the planner supplies
PlanEstimateValues == {10, 60, 240}

\* format(n, "02d") as its digits
Format02d(n) ==
    IF n < 10 THEN <<0, n>>
    ELSE IF n < 100 THEN <<n \div 10, n % 10>>
    ELSE <<n \div 100, (n \div 10) % 10, n % 10>>

\* f"{task['task_id']}-C{chunk_index:02d}" for the task T
ChunkId(chunk_index) == <<"T-C">> \o Format02d(chunk_index)

\* the id of the n-th subtask of the task
SubtaskId(n) == <<"S">> \o Format02d(n)

Max(a, b) == IF a > b THEN a ELSE b

\* seq[a:b] of Python for 0 <= a, 0 <= b
Slice(seq, a, b) ==
    LET lo == Min(a, Len(seq))
        hi == Min(b, Len(seq))
    IN IF lo >= hi THEN <<>> ELSE SubSeq(seq, lo + 1, hi)

\* normalize_acceptance_criteria on a list of n strings: one machine
\* criterion per item, its id made of the subtask id and the position
normalize_acceptance_criteria(n, subtask_id) ==
    [index \in 1..n |-> <<"AC">> \o subtask_id \o <<index>>]

\* mutant: a small estimate is kept
ClampLowKeeps(est) == est

\* if est < 30: est = 30
ClampLow(est) == IF est < 30 THEN 30 ELSE est

\* mutant: the number of parts is rounded down
NumSplitsFloor(est) == Max(1, est \div 90)

\* num_splits = (est + 89) // 90
NumSplits(est) == (est + 89) \div 90

\* end_ac = start_ac + criteria_per if split_i < num_splits - 1 else len(...)
EndAc(start_ac, criteria_per, split_i, num_splits, total) ==
    IF split_i < num_splits - 1 THEN start_ac + criteria_per ELSE total

\* mutant: every part keeps the dependencies of the subtask
SplitDependsFlat(subtask, split_i, chunk_index) == subtask.depends_on

\* depends = subtask.get("depends_on", []);
\* if split_i > 0: depends = [<id of chunk_index - 1>]
SplitDepends(subtask, split_i, chunk_index) ==
    IF split_i > 0 THEN <<ChunkId(chunk_index - 1)>> ELSE subtask.depends_on

Chunk(chunk_index, minutes, depends, criteria, subtask, part, parts) ==
    [chunk_id |-> ChunkId(chunk_index),
     estimated_minutes |-> minutes,
     depends_on |-> depends,
     acceptance_criteria |-> criteria,
     source_subtask_id |-> subtask.subtask_id,
     part |-> part, parts |-> parts]

\* the body of the loop over subtasks; chunk_index is the counter on entry
ChunksOfSubtask(subtask, chunk_index) ==
    LET est == ClampLow(subtask.estimated_minutes)
        machine_criteria ==
            normalize_acceptance_criteria(subtask.acceptance_criteria,
                                          subtask.subtask_id)
    IN IF est <= 90
       THEN <<Chunk(chunk_index + 1, est, subtask.depends_on,
                    machine_criteria, subtask, 1, 1)>>
       ELSE LET num_splits == NumSplits(est)
                per_chunk == est \div num_splits
                criteria_per ==
                    Max(1, Len(machine_criteria) \div num_splits)
            IN [n \in 1..num_splits |->
                  LET split_i == n - 1
                      index == chunk_index + n
                      start_ac == split_i * criteria_per
                      end_ac == EndAc(start_ac, criteria_per, split_i,
                                      num_splits, Len(machine_criteria))
                      sliced == Slice(machine_criteria, start_ac, end_ac)
                      split_criteria ==
                          IF sliced # <<>> THEN sliced
                          ELSE Slice(machine_criteria, 0, 1)
                  IN Chunk(index, Min(90, Max(30, per_chunk)),
                           SplitDepends(subtask, split_i, index),
                           split_criteria, subtask, n, num_splits)]

RECURSIVE ChunksFrom(_, _, _)
ChunksFrom(task_subtasks, k, chunk_index) ==
    IF k > Len(task_subtasks) THEN <<>>
    ELSE LET made == ChunksOfSubtask(task_subtasks[k], chunk_index)
         IN made \o ChunksFrom(task_subtasks, k + 1, chunk_index + Len(made))

\* a non-empty list of chunks in the planning result is returned as it is
build_chunks_from_subtasks(task_subtasks, plan_chunks) ==
    IF plan_chunks # <<>> THEN plan_chunks
    ELSE ChunksFrom(task_subtasks, 1, 0)

\* the subtask at position n: a first subtask depends on nothing, a later
\* one on nothing or on the subtask before it
SubtaskValues(n) ==
    [subtask_id : {SubtaskId(n)},
     estimated_minutes : EstimateValues,
     acceptance_criteria : 0..MaxCriteria,
     depends_on : IF n = 1 THEN {<<>>} ELSE {<<>>, <<SubtaskId(n - 1)>>}]

TaskValues(max) ==
    UNION {{t \in [1..n -> UNION {SubtaskValues(k) : k \in 1..n}] :
                \A k \in 1..n : t[k] \in SubtaskValues(k)} : n \in 1..max}

PlanChunkValues ==
    UNION {[1..n -> [chunk_id : {<<"prebuilt">>},
                     estimated_minutes : PlanEstimateValues]] :
               n \in 1..MaxPlanChunks}

\* either the planner supplied no chunks, or it supplied some for a task of
\* one subtask
InitSplit ==
    /\ \/ kplan = <<>> /\ ktask \in TaskValues(MaxSubtasks)
       \/ kplan \in PlanChunkValues /\ ktask \in TaskValues(1)
    /\ kchunks = <<>>
    /\ kpc = "idle"

BuildChunks ==
    /\ kpc = "idle"
    /\ kchunks' = build_chunks_from_subtasks(ktask, kplan)
    /\ kpc' = "returned"
    /\ UNCHANGED <<ktask, kplan>>
    /\ UNCHANGED <<agentVars, statusVars, reconVars, reviewVars, stageVars>>
    /\ UNCHANGED leaf3Vars
    /\ UNCHANGED <<driverVars, fanoutVars, mergeVars, routeVars>>

NextSplit == BuildChunks

SplitInit ==
    /\ InitSplit /\ IdleAgent /\ IdleStatus /\ IdleRecon
    /\ IdleReview /\ IdleStage /\ IdleLeaf3
    /\ NoRun /\ IdleFanout /\ IdleMerge /\ IdleRoute
    /\ dir = AfterSplitDir /\ chunk_files = <<>>

SpecSplit == SplitInit /\ [][NextSplit]_vars

\* the splitter has returned chunks it derived from the subtasks
Derived == kpc = "returned" /\ kplan = <<>>

\* the chunks made from the subtask at position n, in list order
ChunksOf(n) ==
    SelectSeq(kchunks, LAMBDA c : c.source_subtask_id = SubtaskId(n))

\* ceil(e / 90) for e >= 1
CeilOver90(e) == CHOOSE n \in 1..e : 90 * (n - 1) < e /\ e <= 90 * n

Clamped(m) == IF m < 30 THEN 30 ELSE IF m > 90 THEN 90 ELSE m

\* the number a chunk id ends with
IdNumber(id) ==
    IF Len(id) = 3 THEN 10 * id[2] + id[3]
    ELSE 100 * id[2] + 10 * id[3] + id[4]

\* C25 as stated: every chunk of the list returned has an estimate within
\* 30..90, whether derived from subtasks or taken from the planning result
C25_ChunkMinutesInRangeOriginal ==
    kpc = "returned" =>
        \A j \in 1..Len(kchunks) :
            /\ 30 <= kchunks[j].estimated_minutes
            /\ kchunks[j].estimated_minutes <= 90

\* C25 amended: every chunk derived from the subtasks has an estimate within
\* 30..90, exactly 30 for a subtask estimate below 30; a chunk list supplied
\* by the planning result is returned as it is
C25_DerivedChunkMinutesInRange ==
    kpc = "returned" =>
        IF kplan = <<>>
        THEN /\ \A j \in 1..Len(kchunks) :
                    /\ 30 <= kchunks[j].estimated_minutes
                    /\ kchunks[j].estimated_minutes <= 90
             /\ \A n \in 1..Len(ktask) :
                    ktask[n].estimated_minutes < 30 =>
                        /\ Len(ChunksOf(n)) = 1
                        /\ ChunksOf(n)[1].estimated_minutes = 30
        ELSE kchunks = kplan

\* C25 witnesses: a subtask of 10 minutes gave a chunk of 30; a planner
\* chunk of 240 minutes came back unchanged
C25_Witness ==
    /\ Derived /\ ktask[1].estimated_minutes = 10
    /\ kchunks[1].estimated_minutes = 30

C25_WitnessPlanChunks ==
    /\ kpc = "returned" /\ kplan # <<>>
    /\ kchunks[1].estimated_minutes = 240

\* C28: a subtask with estimate e gives one chunk when e <= 90 and
\* ceil(e / 90) chunks when e > 90, each of e // ceil(e / 90) minutes
\* clamped to 30..90; the chunk ids of the list are numbered 1, 2, 3, ...
\* across the subtasks and are pairwise distinct
C28_SplitCountAndIds ==
    Derived =>
        /\ \A n \in 1..Len(ktask) :
              LET e == ktask[n].estimated_minutes
                  parts == CeilOver90(e)
                  made == ChunksOf(n)
              IN /\ (e <= 90 => Len(made) = 1)
                 /\ (e > 90 => Len(made) = parts)
                 /\ \A i \in 1..Len(made) :
                        made[i].estimated_minutes = Clamped(e \div parts)
        /\ \A j \in 1..Len(kchunks) : IdNumber(kchunks[j].chunk_id) = j
        /\ \A i, j \in 1..Len(kchunks) :
              i # j => kchunks[i].chunk_id # kchunks[j].chunk_id
        /\ \A j \in 1..(Len(kchunks) - 1) :
              \E m, n \in 1..Len(ktask) :
                 /\ m <= n
                 /\ kchunks[j].source_subtask_id = SubtaskId(m)
                 /\ kchunks[j + 1].source_subtask_id = SubtaskId(n)

\* C28 witness: 181 minutes gave three chunks of 60, a second subtask of 90
\* minutes gave one chunk of 90 with the next id
C28_Witness ==
    /\ Derived /\ Len(ktask) = 2
    /\ ktask[1].estimated_minutes = 181 /\ ktask[2].estimated_minutes = 90
    /\ Len(kchunks) = 4
    /\ kchunks[3].estimated_minutes = 60
    /\ kchunks[4].estimated_minutes = 90
    /\ kchunks[4].chunk_id = <<"T-C", 0, 4>>

\* the machine criteria of the subtask at position n
CriteriaOf(n) ==
    normalize_acceptance_criteria(ktask[n].acceptance_criteria, SubtaskId(n))

\* seq is `count` consecutive items of `all`, in order
ConsecutiveRun(seq, all, count) ==
    /\ Len(seq) = count
    /\ \E a \in 0..Len(all) :
          /\ a + count <= Len(all)
          /\ \A i \in 1..count : seq[i] = all[a + i]

\* C29: in a subtask split into n chunks with k machine criteria, every
\* chunk but the last holds max(1, k // n) consecutive criteria, the last
\* one holds those that remain, in order; every criterion is in some chunk,
\* in exactly one when k >= n, and every chunk holds one at least when
\* k >= 1; 180 minutes and 4 criteria give 2 chunks holding 2 each
C29_CriteriaDistribution ==
    Derived =>
        \A s \in 1..Len(ktask) :
            LET made == ChunksOf(s)
                n == Len(made)
                all == CriteriaOf(s)
                k == Len(all)
                per == Max(1, k \div n)
                holders(j) ==
                    {i \in 1..n : all[j] \in Range(made[i].acceptance_criteria)}
            IN n > 1 =>
                /\ \A i \in 1..(n - 1) :
                      ConsecutiveRun(made[i].acceptance_criteria, all, per)
                /\ \A j \in ((n - 1) * per + 1)..k :
                      all[j] \in Range(made[n].acceptance_criteria)
                /\ ConsecutiveRun(made[n].acceptance_criteria, all,
                                  Len(made[n].acceptance_criteria))
                /\ \A j \in 1..k : holders(j) # {}
                /\ (k >= n => \A j \in 1..k : Cardinality(holders(j)) = 1)
                /\ (k >= 1 => \A i \in 1..n :
                                 made[i].acceptance_criteria # <<>>)
                /\ (ktask[s].estimated_minutes = 180 /\ k = 4 =>
                       /\ n = 2
                       /\ Len(made[1].acceptance_criteria) = 2
                       /\ Len(made[2].acceptance_criteria) = 2)

\* the dependency relation among the chunks of subtask n, closed under
\* composition: <<a, b>> when chunk a depends, directly or not, on chunk b
RECURSIVE Closure(_, _)
Closure(rel, steps) ==
    IF steps = 0 THEN rel
    ELSE Closure(rel \cup {<<pq[1][1], pq[2][2]>> : pq \in
                              {xy \in rel \X rel : xy[1][2] = xy[2][1]}},
                 steps - 1)

DependsWithin(n) ==
    LET made == ChunksOf(n)
    IN {<<i, j>> \in (1..Len(made)) \X (1..Len(made)) :
            made[j].chunk_id \in Range(made[i].depends_on)}

ResultValues == {"absent", "{}", "data", "non_object"}

\* what the "stdout" key of a wrapper holds: a string that is not JSON
\* (the empty string included), a value that is not a string, or a string
\* that is the JSON text of an array, of a scalar or of an object
InnerKinds == {"not_json", "non_string", "array", "scalar", "object"}

NoInner == [kind |-> "none", result |-> "absent", other |-> FALSE]

InnerValues ==
    {[kind |-> k, result |-> "absent", other |-> FALSE] :
        k \in InnerKinds \ {"object"}}
    \cup [kind : {"object"}, result : ResultValues, other : BOOLEAN]

\* the text is not a JSON object: empty, not JSON, an array or a scalar
PlainText(kind) ==
    [kind |-> kind, has_status |-> FALSE, has_stdout |-> FALSE,
     result |-> "absent", other |-> FALSE, inner |-> NoInner]

\* the stdout texts: `other` says the object has keys besides status,
\* stdout and result
StdoutTexts ==
    {PlainText(k) : k \in {"empty", "not_json", "array", "scalar"}}
    \cup {t \in [kind : {"object"}, has_status : BOOLEAN,
                 has_stdout : BOOLEAN, result : ResultValues,
                 other : BOOLEAN, inner : InnerValues \cup {NoInner}] :
            t.has_stdout <=> t.inner # NoInner}

\* stdout of the simulated envelope: f"[{agent}] simulation mode"
SimulationText == PlainText("not_json")

\* {"envelope": {"status": "failed"}, "result": {}}
FailedParse ==
    [envelope |-> "failed", source |-> "none", empty |-> TRUE,
     object |-> TRUE]

\* {"envelope": envelope, "result": <the value named by source>}; an empty
\* value is {} wherever it was taken from
Parsed(source, empty) ==
    [envelope |-> "outer", source |-> IF empty THEN "none" ELSE source,
     empty |-> empty, object |-> TRUE]

\* {"envelope": envelope, "result": <the value of a "result" key>}: the value
\* is passed on as it is, a dict or not
ResultOf(source, value) ==
    IF value = "non_object"
    THEN [envelope |-> "outer", source |-> source, empty |-> FALSE,
          object |-> FALSE]
    ELSE Parsed(source, value = "{}")

\* envelope.get("result", default)
OuterResultOr(text, source, empty) ==
    IF text.result # "absent"
    THEN ResultOf("outer.result", text.result)
    ELSE Parsed(source, empty)

parse_cli_envelope(text) ==
    IF text.kind = "empty" THEN FailedParse
    ELSE IF text.kind = "not_json" THEN FailedParse
    ELSE IF text.kind = "object" /\ text.has_status /\ text.has_stdout
    THEN IF text.inner.kind \in {"not_json", "non_string"}
         THEN OuterResultOr(text, "none", TRUE)
         ELSE IF text.inner.kind = "object"
         THEN IF text.inner.result # "absent"
              THEN ResultOf("inner.result", text.inner.result)
              ELSE Parsed("inner", ~text.inner.other)
         ELSE Parsed("none", TRUE)
    ELSE IF text.kind = "object"
    THEN OuterResultOr(text, "outer",
                       ~(text.has_status \/ text.has_stdout \/ text.other))
    ELSE FailedParse

\* the stage payload written and the code returned
StageResult(status, open_questions) ==
    [status |-> status, open_questions |-> open_questions,
     rc |-> IF status = "done" THEN 0 ELSE 2]

\* plan_data.get / impl_data.get on a value that is not a dict raises
\* AttributeError before anything is written
RaisedResult == [status |-> "raised", open_questions |-> <<>>, rc |-> 1]

\* action_run_plan from the envelope on (a normalised task has subtasks, so
\* the chunk list is never empty)
plan_result(cli_status, plan_data) ==
    LET status == IF cli_status \in {"passed", "simulated"} THEN "done"
                  ELSE "blocked"
        failed == IF status # "done" THEN <<"Plan phase failed">> ELSE <<>>
    IN IF ~plan_data.object THEN RaisedResult
       ELSE IF plan_data.empty /\ cli_status # "simulated"
       THEN StageResult("blocked",
                        Append(failed, "CLI output could not be parsed"))
       ELSE StageResult(status, failed)

\* action_run_implement from the envelope on
implement_result(cmd_status, impl_data) ==
    LET status == IF cmd_status \in {"passed", "simulated"} THEN "done"
                  ELSE "failed"
    IN IF ~impl_data.object THEN RaisedResult
       ELSE IF impl_data.empty /\ cmd_status # "simulated"
       THEN StageResult("blocked", <<"CLI result payload was not structured JSON">>)
       ELSE IF status = "failed"
       THEN StageResult("failed", <<"agent returned status=failed">>)
       ELSE StageResult(status, <<>>)

\* run_agent_command has returned: passed or failed with whatever the
\* executor printed, or the simulated envelope
InitStage ==
    /\ tkind \in {"plan", "implement"}
    /\ texec \in [status : {"passed", "failed", "simulated"},
                  stdout : StdoutTexts]
    /\ (texec.status = "simulated" => texec.stdout = SimulationText)
    /\ tparsed = <<>>
    /\ tresult = <<>>
    /\ tpc = "executed"

\* parsed = parse_cli_envelope(cli.get("stdout", ""))
ParseEnvelope ==
    /\ tpc = "executed"
    /\ tparsed' = parse_cli_envelope(texec.stdout)
    /\ tpc' = "parsed"
    /\ UNCHANGED <<tkind, texec, tresult>>
    /\ UNCHANGED <<agentVars, statusVars, reconVars, reviewVars, splitVars>>
    /\ UNCHANGED leaf3Vars
    /\ UNCHANGED <<driverVars, fanoutVars, mergeVars, routeVars>>

\* the rest of the stage, up to write_with_meta and the return
WriteStageResult ==
    /\ tpc = "parsed"
    /\ tresult' = IF tkind = "plan" THEN plan_result(texec.status, tparsed)
                  ELSE implement_result(texec.status, tparsed)
    /\ tpc' = "written"
    /\ UNCHANGED <<tkind, texec, tparsed>>
    /\ UNCHANGED <<agentVars, statusVars, reconVars, reviewVars, splitVars>>
    /\ UNCHANGED leaf3Vars
    /\ UNCHANGED <<driverVars, fanoutVars, mergeVars, routeVars>>

NextStage ==
    \/ ParseEnvelope
    \/ WriteStageResult

StageInit ==
    /\ InitStage /\ IdleAgent /\ IdleStatus /\ IdleRecon
    /\ IdleReview /\ IdleSplit /\ IdleLeaf3
    /\ NoRun /\ IdleFanout /\ IdleMerge /\ IdleRoute
    /\ dir = AfterSplitDir /\ chunk_files = <<>>

SpecStage == StageInit /\ [][NextStage]_vars

\* the open question a stage adds when the output was not understood
ParseQuestion ==
    IF tkind = "plan" THEN "CLI output could not be parsed"
    ELSE "CLI result payload was not structured JSON"

\* the open question a stage adds when the executor failed
FailureQuestion ==
    IF tkind = "plan" THEN "Plan phase failed"
    ELSE "agent returned status=failed"

\* C26: when the executor's output gave no structured result and the
\* envelope is not simulated, the stage result is blocked and carries the
\* open question saying so; and a stage result written after the executor
\* itself failed tells that case apart: it has status failed, or at least
\* the open question that names the failure
C26_ParseErrorDistinctFromFailure ==
    tpc = "written" =>
        /\ (tparsed.empty /\ texec.status # "simulated") =>
               /\ tresult.status = "blocked"
               /\ ParseQuestion \in Range(tresult.open_questions)
        /\ texec.status = "failed" =>
               \/ tresult.status = "failed"
               \/ FailureQuestion \in Range(tresult.open_questions)

\* the strategies as the claim orders them, for the stdout text parsed
ClaimedParse ==
    LET text == texec.stdout IN
    IF text.kind = "object" /\ text.has_status /\ text.has_stdout
    THEN IF text.inner.kind = "object" /\ text.inner.result # "absent"
         THEN ResultOf("inner.result", text.inner.result)
         ELSE IF text.inner.kind = "object"
         THEN Parsed("inner", ~text.inner.other)
         ELSE IF text.result # "absent"
         THEN ResultOf("outer.result", text.result)
         ELSE Parsed("none", TRUE)
    ELSE IF text.kind = "object"
    THEN IF text.result # "absent"
         THEN ResultOf("outer.result", text.result)
         ELSE Parsed("outer",
                     ~(text.has_status \/ text.has_stdout \/ text.other))
    ELSE FailedParse

\* C27: a JSON object with status and stdout keys gives the inner result
\* field, else the inner object, else the outer result field; any other JSON
\* object gives its result field or itself; empty text, text that is not
\* JSON and a top-level array give envelope status failed and result {}
C27_ParseStrategies ==
    tpc \in {"parsed", "written"} => tparsed = ClaimedParse

\* ------------------------------------------------------------------------
\* Merge aggregation: the lists of action_merge_results
\* ------------------------------------------------------------------------
\* file names as sequences of character codes: "a", "ab", "b"
NameA == <<1>>

NameAB == <<1, 2>>

NameB == <<2>>

\* str < str of Python
RECURSIVE LexLess(_, _)
LexLess(a, b) ==
    IF a = <<>> THEN b # <<>>
    ELSE IF b = <<>> THEN FALSE
    ELSE IF Head(a) # Head(b) THEN Head(a) < Head(b)
    ELSE LexLess(Tail(a), Tail(b))

\* sorted(set) as a sequence
RECURSIVE SortedSeq(_)
SortedSeq(S) ==
    IF S = {} THEN <<>>
    ELSE LET least == CHOOSE x \in S : \A y \in S \ {x} : LexLess(x, y)
         IN <<least>> \o SortedSeq(S \ {least})

\* mutant: files_changed is the concatenation, like the other lists
MergedFilesConcatenated(files_changed) == files_changed

\* sorted({str(x) for x in files_changed})
MergedFiles(files_changed) == SortedSeq(Range(files_changed))

\* list.extend(payload.get(key, []) or []) over the results, in order
RECURSIVE Extended(_, _)
Extended(results, key) ==
    IF results = <<>> THEN <<>>
    ELSE Head(results)[key] \o Extended(Tail(results), key)

\* the questions the reconciliation appends after the loop
AddedQuestions(missing, dispatch_load_failed) ==
    [k \in 1..Len(missing) |-> "Missing implementation result"]
    \o (IF dispatch_load_failed THEN <<"dispatch file could not be loaded">>
        ELSE <<>>)

\* the list fields of the merged payload, and count
merged_lists(results, missing, dispatch_load_failed) ==
    [count |-> Len(results),
     files_changed |-> MergedFiles(Extended(results, "files_changed")),
     commands_executed |-> Extended(results, "commands_executed"),
     failed_tests |-> Extended(results, "failed_tests"),
     artifacts |-> Extended(results, "artifacts"),
     open_questions |->
         Extended(results, "open_questions")
         \o AddedQuestions(missing, dispatch_load_failed)]

\* the lists of one input result besides files_changed
ListProfiles ==
    {[commands_executed |-> <<>>, failed_tests |-> <<>>,
      artifacts |-> <<>>, open_questions |-> <<>>],
     [commands_executed |-> <<"x">>, failed_tests |-> <<"x">>,
      artifacts |-> <<"x">>, open_questions |-> <<"x">>],
     [commands_executed |-> <<"y", "x">>, failed_tests |-> <<>>,
      artifacts |-> <<"y">>, open_questions |-> <<"y", "y">>],
     [commands_executed |-> <<>>, failed_tests |-> <<"y">>,
      artifacts |-> <<"x", "x">>, open_questions |-> <<>>]}

FileLists == {<<>>, <<NameB, NameA>>, <<NameB, NameAB, NameB>>}

InputResults ==
    {[files_changed |-> f,
      commands_executed |-> l.commands_executed,
      failed_tests |-> l.failed_tests,
      artifacts |-> l.artifacts,
      open_questions |-> l.open_questions] :
        f \in FileLists, l \in ListProfiles}

\* the results loaded, in discovery order, and what the reconciliation
\* found: nothing, a missing subtask, or a dispatch file that did not load
InitAgg ==
    /\ qin \in [results : UNION {[1..n -> InputResults] : n \in 1..MaxResults},
                missing : {<<>>, <<"S02">>},
                dispatch_load_failed : BOOLEAN]
    /\ ~(qin.missing # <<>> /\ qin.dispatch_load_failed)
    /\ qout = <<>>
    /\ qpc = "idle"

Aggregate ==
    /\ qpc = "idle"
    /\ qout' = merged_lists(qin.results, qin.missing, qin.dispatch_load_failed)
    /\ qpc' = "written"
    /\ UNCHANGED qin
    /\ UNCHANGED <<agentVars, statusVars, reconVars, leaf2Vars, exceptAgg>>
    /\ UNCHANGED <<driverVars, fanoutVars, mergeVars, routeVars>>

NextAgg == Aggregate

AggInit ==
    /\ InitAgg /\ IdleAgent /\ IdleStatus /\ IdleRecon /\ IdleLeaf2
    /\ IdleRetro /\ IdleIds /\ IdleWeb
    /\ NoRun /\ IdleFanout /\ IdleMerge /\ IdleRoute
    /\ dir = AfterSplitDir /\ chunk_files = <<>>

SpecAgg == AggInit /\ [][NextAgg]_vars

\* the files named by some input result
NamedFiles ==
    UNION {Range(qin.results[k].files_changed) : k \in 1..Len(qin.results)}

\* files_changed holds every named file once, in lexicographic order
FilesOnceInOrder ==
    /\ Range(qout.files_changed) = NamedFiles
    /\ \A i, j \in 1..Len(qout.files_changed) :
          i < j => LexLess(qout.files_changed[i], qout.files_changed[j])

\* list `key` of the inputs, one input after the other
InOrder(key) ==
    LET n == Len(qin.results)
        first == qin.results[1][key]
    IN IF n = 1 THEN first
       ELSE IF n = 2 THEN first \o qin.results[2][key]
       ELSE first \o qin.results[2][key] \o qin.results[3][key]

RetrospectCap == 5

\* the messages action_review puts in action_required
RequiredMessages == {"Plan phase status", "Implementation status"}

\* "codex" if "implementation" in item.lower() else "claude"
ReworkOwner(item) ==
    IF item = "Implementation status" THEN "codex" ELSE "claude"

NextAction(index, type, title, owner, priority) ==
    [index |-> index, type |-> type, title |-> title, owner |-> owner,
     priority |-> priority]

\* the loop over enumerate(action_required[:5], start=1)
ReworkActions(action_required) ==
    [index \in 1..Min(Len(action_required), RetrospectCap) |->
        NextAction(index, "rework", action_required[index],
                   ReworkOwner(action_required[index]), "high")]

\* mutant: open questions do not hold the observe action back
NeedsObserveIgnoresQuestions(next_actions, open_questions) ==
    next_actions = <<>>

\* if not next_actions and not open_questions
NeedsObserve(next_actions, open_questions) ==
    next_actions = <<>> /\ open_questions = <<>>

\* action_retrospect on a review payload that is there
action_retrospect(review) ==
    LET rework == ReworkActions(review.action_required)
        next_actions ==
            IF NeedsObserve(rework, review.open_questions)
            THEN Append(rework,
                        NextAction(1, "observe", "No critical issues",
                                   "both", "medium"))
            ELSE rework
    IN [status |-> "ready",
        issues_count |-> Len(review.open_questions),
        next_action_count |-> Len(next_actions),
        next_plan |-> next_actions,
        rc |-> 0]

InitRetro ==
    /\ xin \in [action_required :
                    UNION {[1..n -> RequiredMessages] : n \in 0..MaxRequired},
                open_questions :
                    {[k \in 1..n |-> "question"] : n \in 0..MaxQuestions}]
    /\ xout = <<>>
    /\ xpc = "idle"

Retrospect ==
    /\ xpc = "idle"
    /\ xout' = action_retrospect(xin)
    /\ xpc' = "written"
    /\ UNCHANGED xin
    /\ UNCHANGED <<agentVars, statusVars, reconVars, leaf2Vars, exceptRetro>>
    /\ UNCHANGED <<driverVars, fanoutVars, mergeVars, routeVars>>

NextRetro == Retrospect

RetroInit ==
    /\ InitRetro /\ IdleAgent /\ IdleStatus /\ IdleRecon /\ IdleLeaf2
    /\ IdleAgg /\ IdleIds /\ IdleWeb
    /\ NoRun /\ IdleFanout /\ IdleMerge /\ IdleRoute
    /\ dir = AfterSplitDir /\ chunk_files = <<>>

SpecRetro == RetroInit /\ [][NextRetro]_vars

\* the actions of a type in the plan written
ActionsOfType(type) == SelectSeq(xout.next_plan, LAMBDA a : a.type = type)

\* C32: the retrospective holds one rework action of priority high per
\* action_required entry, in order, for the first 5 entries only; it holds
\* exactly one observe action (owner both, priority medium) when the review
\* has no action_required item and no open question, and none otherwise;
\* next_action_count is the number of actions and issues_count the number of
\* open questions
C32_RetrospectActions ==
    xpc = "written" =>
        LET rework == ActionsOfType("rework")
            observe == ActionsOfType("observe")
            n == Len(xin.action_required)
        IN /\ Len(rework) = (IF n <= 5 THEN n ELSE 5)
           /\ \A k \in 1..Len(rework) :
                 /\ rework[k].title = xin.action_required[k]
                 /\ rework[k].priority = "high"
                 /\ xout.next_plan[k] = rework[k]
           /\ IF n = 0 /\ xin.open_questions = <<>>
              THEN /\ Len(observe) = 1
                   /\ observe[1].owner = "both"
                   /\ observe[1].priority = "medium"
              ELSE observe = <<>>
           /\ Len(xout.next_plan) = Len(rework) + Len(observe)
           /\ xout.next_action_count = Len(xout.next_plan)
           /\ xout.issues_count = Len(xin.open_questions)

\* C32 witnesses: six entries gave five rework actions; a review without
\* entries and without questions gave the one observe action
C32_Witness ==
    /\ xpc = "written" /\ Len(xin.action_required) = 6
    /\ xout.next_action_count = 5
    /\ xout.next_plan[5].type = "rework"

C32_WitnessObserve ==
    /\ xpc = "written" /\ xin.action_required = <<>>
    /\ xin.open_questions = <<>>
    /\ xout.next_action_count = 1 /\ xout.next_plan[1].type = "observe"

\* ------------------------------------------------------------------------
\* The implement stage and the order of its fan-out
\* ------------------------------------------------------------------------
\* every chunk execution of the stage returned a code
AllReturned == \A i \in ChunkIds : fout[i].kind = "return"

\* the chunks among S that returned a non-zero code
NonZero(S) == {i \in S : fout[i].kind = "return" /\ fout[i].rc # 0}

\* C33: whatever the order in which the chunk executions start and complete,
\* the failure count is the number of non-zero return codes (of the futures
\* yielded so far, and of all chunks once the pool is left), and the stage
\* proceeds to merge when that number is 0 and exits with 1 otherwise: both
\* are functions of the return codes alone
C33_OutcomeIndependentOfOrder ==
    /\ (pc = "as_completed" /\ \A i \in yielded : fout[i].kind = "return")
          => impl_failures = Cardinality(NonZero(yielded))
    /\ (AllReturned /\ pc = "impl_check")
          => impl_failures = Cardinality(NonZero(ChunkIds))
    /\ (AllReturned /\ LastInvoked = "implement" /\ pc = "merge")
          => NonZero(ChunkIds) = {}
    /\ (AllReturned /\ LastInvoked = "implement" /\ LeftFanout
            /\ pc # "impl_check" /\ NonZero(ChunkIds) = {})
          => pc = "merge" /\ exit_code = 0
    /\ (AllReturned /\ LastInvoked = "implement" /\ LeftFanout
            /\ pc # "impl_check" /\ NonZero(ChunkIds) # {})
          => pc = "exited" /\ exit_code = 1

\* C33 witnesses: the future of the third chunk is yielded first, while the
\* first chunk is still running, and its failure is counted; a stage whose
\* first and third chunk failed exited with 1; one without failure stands
\* at merge
C33_Witness ==
    /\ Len(subtasks) = 3 /\ pc = "as_completed"
    /\ yielded = {3} /\ fstate[1] = "running"
    /\ fout[3] = Ret(2, "failed") /\ impl_failures = 1

C33_WitnessExit ==
    /\ Len(subtasks) = 3 /\ AllReturned /\ NonZero(ChunkIds) = {1, 3}
    /\ pc = "exited" /\ exit_code = 1 /\ LastInvoked = "implement"

C33_WitnessProceed ==
    /\ Len(subtasks) = 3 /\ AllReturned /\ NonZero(ChunkIds) = {}
    /\ pc = "merge" /\ LastInvoked = "implement"

\* ------------------------------------------------------------------------
\* One unit of work from split to merge: the subtask ids of the manifest,
\* the per-chunk result files, and what the merge finds
\* ------------------------------------------------------------------------
\* values of an id field of a plan chunk or task subtask; "a/b" holds a
\* path separator
IdFieldValues == {"absent", "C1", "C2", "a/b"}

\* f"{task_id}-S{index:02d}": the id normalize_task gives a subtask that
\* has none
IndexId(index) ==
    CASE index = 1 -> "T-S01" [] index = 2 -> "T-S02" [] OTHER -> "T-S03"

\* subtask_id = chunk.get("chunk_id", chunk.get("subtask_id", "unknown"))
PlanChunkId(chunk) ==
    IF chunk.chunk_id # "absent" THEN chunk.chunk_id
    ELSE IF chunk.subtask_id # "absent" THEN chunk.subtask_id
    ELSE "unknown"

\* entry["subtask_id"] of a normalized task
TaskSubtaskId(entry, index) ==
    IF entry.subtask_id # "absent" THEN entry.subtask_id ELSE IndexId(index)

\* the subtask ids action_split_task writes to the manifest
SplitIds(source, entries) ==
    [k \in 1..Len(entries) |->
        IF source = "plan" THEN PlanChunkId(entries[k])
        ELSE TaskSubtaskId(entries[k], k)]

\* every id a manifest can hold
SubtaskIds ==
    (IdFieldValues \ {"absent"}) \cup {"unknown"}
        \cup {IndexId(k) : k \in 1..(MaxEntries + 1)}

\* out = f"{results_dir}/implement_{work_id}_{subtask_id}.json"
ResultPath(subtask_id) ==
    IF subtask_id = "a/b"
    THEN [parent |-> "results/implement_W_a", name |-> <<"b", ".json">>]
    ELSE [parent |-> "results",
          name |-> <<"implement_W_", subtask_id, ".json">>]

\* base.glob("implement_W_*.json"): the files of the results directory
\* itself whose name fits; "*" does not reach into a subdirectory
GlobbedIds(files) ==
    {id \in SubtaskIds :
        /\ files[id] # "absent"
        /\ ResultPath(id).parent = "results"}

\* action_merge_results with the glob built from the results directory and
\* the manifest supplied
MergedOf(files, manifest) ==
    LET found == GlobbedIds(files)
        \* expected_subtask_ids: every id of the manifest (none is empty)
        missing == MissingSubtasks(manifest, found)
    IN IF found = {}
       THEN [status |-> "blocked", count |-> 0, found |-> {},
             reconciled |-> FALSE, missing |-> <<>>, rc |-> 2]
       ELSE [status |-> ReconciledStatus("done", FALSE, missing),
             count |-> Cardinality(found), found |-> found,
             reconciled |-> TRUE, missing |-> missing,
             rc |-> IF ReconciledStatus("done", FALSE, missing) = "done"
                    THEN 0 ELSE 2]

\* a unit of work whose plan supplies chunks, or whose task supplies
\* subtasks, with the results directory still empty
InitIds ==
    /\ esource \in {"plan", "task"}
    /\ eentries \in UNION {[1..n -> [chunk_id : IdFieldValues,
                                     subtask_id : IdFieldValues]] :
                              n \in 1..MaxEntries}
    /\ (esource = "task" =>
           \A k \in 1..Len(eentries) : eentries[k].chunk_id = "absent")
    /\ emanifest = <<>>
    /\ estate = <<>>
    /\ erc = <<>>
    /\ efiles = [id \in SubtaskIds |-> "absent"]
    /\ emerged = <<>>
    /\ epc = "split"

OtherThanIds ==
    /\ UNCHANGED <<agentVars, statusVars, reconVars, leaf2Vars, exceptIds>>
    /\ UNCHANGED <<driverVars, fanoutVars, mergeVars, routeVars>>

\* action_split_task writes the manifest
IdsSplit ==
    /\ epc = "split"
    /\ emanifest' = SplitIds(esource, eentries)
    /\ estate' = [k \in 1..Len(eentries) |-> "queued"]
    /\ erc' = [k \in 1..Len(eentries) |-> 0]
    /\ epc' = "implement"
    /\ UNCHANGED <<esource, eentries, efiles, emerged>>
    /\ OtherThanIds

\* a worker of the pool starts _run_subtask(st) for an entry
IdsWorkerStart(i) ==
    /\ epc = "implement" /\ estate[i] = "queued"
    /\ Cardinality({k \in 1..Len(estate) : estate[k] = "running"})
          < PoolSize(Len(emanifest))
    /\ estate' = [estate EXCEPT ![i] = "running"]
    /\ UNCHANGED <<esource, eentries, emanifest, erc, efiles, emerged, epc>>
    /\ OtherThanIds

\* run_implement of the entry writes its result file and returns 0 (done)
\* or 2 (failed or blocked)
IdsWorkerFinish(i) ==
    /\ epc = "implement" /\ estate[i] = "running"
    /\ \E rc \in {0, 2} :
         /\ erc' = [erc EXCEPT ![i] = rc]
         /\ efiles' = [efiles EXCEPT ![emanifest[i]] =
                           IF rc = 0 THEN "done" ELSE "failed"]
    /\ estate' = [estate EXCEPT ![i] = "finished"]
    /\ UNCHANGED <<esource, eentries, emanifest, emerged, epc>>
    /\ OtherThanIds

\* the failure check of stage 4, then stage 5
IdsMerge ==
    /\ epc = "implement"
    /\ \A k \in 1..Len(estate) : estate[k] = "finished"
    /\ IF ImplementExit(Cardinality({k \in 1..Len(erc) : erc[k] # 0})) # 0
       THEN epc' = "exited" /\ UNCHANGED emerged
       ELSE epc' = "merged" /\ emerged' = MergedOf(efiles, emanifest)
    /\ UNCHANGED <<esource, eentries, emanifest, estate, erc, efiles>>
    /\ OtherThanIds

NextIds ==
    \/ IdsSplit
    \/ \E i \in 1..Len(estate) : IdsWorkerStart(i)
    \/ \E i \in 1..Len(estate) : IdsWorkerFinish(i)
    \/ IdsMerge

IdsInit ==
    /\ InitIds /\ IdleAgent /\ IdleStatus /\ IdleRecon /\ IdleLeaf2
    /\ IdleAgg /\ IdleRetro /\ IdleWeb
    /\ NoRun /\ IdleFanout /\ IdleMerge /\ IdleRoute
    /\ dir = AfterSplitDir /\ chunk_files = <<>>

SpecIds == IdsInit /\ [][NextIds]_vars

\* C34 (fails): after a split that succeeded and an implement stage whose
\* chunk executions all returned 0, the merge finds a result for every
\* subtask of the manifest: missing_subtasks is empty and the status is not
\* failed
C34_ManifestAndResultsConsistent ==
    epc = "merged" =>
        /\ \A k \in 1..Len(emanifest) : emanifest[k] \in emerged.found
        /\ emerged.missing = <<>>
        /\ emerged.status # "failed"

\* C35 (fails): two workers that run at the same time write different
\* result files
C35_DistinctResultPaths ==
    \A i, j \in 1..Len(estate) :
        (i # j /\ estate[i] = "running" /\ estate[j] = "running")
            => ResultPath(emanifest[i]) # ResultPath(emanifest[j])

\* ------------------------------------------------------------------------
\* Release of the merge lock
\* ------------------------------------------------------------------------
\* the invocation is over: it returned, or its exception left the function
Over(p) == mpc[p] \in {"returned", "raised", "lock_failed"}

\* C36: an invocation that acquired the lock and is over (returned 0,
\* returned 2 on zero inputs or a failed status, or raised during the
\* aggregation) holds the lock no more; a merge that asks for the lock when
\* every other invocation for the path is over is granted it
C36_LockReleasedOnEveryPath ==
    /\ \A p \in Procs : Over(p) => p \notin lock_holder
    /\ \A p \in Procs :
         (mpc[p] = "loaded" /\ \A q \in Procs \ {p} : Over(q))
            => FlockGranted(lock_holder)

\* C36 witnesses: invocation 1 raised during the aggregation, invocation 2
\* holds the lock after it; the same after a success, after a merge blocked
\* on zero inputs, and after a failed status
C36_Witness ==
    /\ mpc[1] = "raised" /\ mpc[2] = "locked" /\ lock_holder = {2}

C36_WitnessSuccess ==
    /\ mpc[1] = "returned" /\ mrc[1] = 0
    /\ mpc[2] = "locked" /\ lock_holder = {2}

C36_WitnessBlocked ==
    /\ mpc[1] = "returned" /\ mrc[1] = 2 /\ chunk_files = <<>>
    /\ mpc[2] = "locked" /\ lock_holder = {2}

C36_WitnessFailed ==
    /\ mpc[1] = "returned" /\ mrc[1] = 2 /\ Len(chunk_files) > 0
    /\ dir["implement"] = "failed"
    /\ mpc[2] = "locked" /\ lock_holder = {2}

\* ------------------------------------------------------------------------
\* Resume: the evidence a skipped stage rests on
\* ------------------------------------------------------------------------
\* the result file a stage writes for this work_id (the implement stage
\* writes one file per chunk)
OwnResultCompleted(stage) ==
    CASE stage = "validate" -> dir["validation"] \in CompletedStatuses
      [] stage = "plan" -> dir["plan"] \in CompletedStatuses
      [] stage = "split" -> dir["dispatch"] \in CompletedStatuses
      [] stage = "implement" ->
            \E i \in DriverChunks : chunk_files[i] \in CompletedStatuses
      [] stage = "merge" -> dir["implement"] \in CompletedStatuses
      [] stage = "verify" -> dir["verify"] \in CompletedStatuses
      [] stage = "review" -> dir["review"] \in CompletedStatuses

\* C37 (fails): on resume a stage is in the skip-set only when its own
\* result file for this work_id has a completed status (the directory is
\* still as the scan saw it when the driver is at validate); the merge stage
\* is skipped only when implement_<work_id>.json has one
C37_SkippedOnOwnResult ==
    (resume /\ pc = "validate") =>
        \A stage \in skip_stages \ {"implement"} : OwnResultCompleted(stage)

\* ------------------------------------------------------------------------
\* The type of the parsed result
\* ------------------------------------------------------------------------
\* C38 (fails): whatever the stdout text, the result parse_cli_envelope
\* returns is a JSON object, and the plan or implement stage that reads
\* fields from it does not raise
C38_ResultIsObject ==
    /\ tpc \in {"parsed", "written"} => tparsed.object
    /\ tpc = "written" => tresult.status # "raised"

\* ------------------------------------------------------------------------
\* Web pipeline runner: start_pipeline, _run_pipeline_background and
\* cancel_pipeline on one work id
\* ------------------------------------------------------------------------
\* a row of stage_results
StageRow(stage_name, status) == [stage_name |-> stage_name, status |-> status]

\* a row of pipeline_runs with the stage_results rows of the run
RunRow(status, current_stage, results) ==
    [status |-> status, current_stage |-> current_stage, results |-> results]

\* an earlier run of the work id that completed the first k stages and no
\* more: it failed in the next one, or stopped for the review gate, or went
\* through all seven
EarlierRun(k, failed) ==
    LET completed == [i \in 1..k |-> StageRow(PIPELINE_STAGES[i], "completed")]
    IN IF k = NumStages THEN RunRow("completed", "review", completed)
       ELSE IF failed
       THEN RunRow("failed", PIPELINE_STAGES[k + 1],
                   Append(completed, StageRow(PIPELINE_STAGES[k + 1], "failed")))
       ELSE RunRow("awaiting_review",
                   IF k = 0 THEN "validate" ELSE PIPELINE_STAGES[k], completed)

\* PIPELINE_STAGES[idx:], 1-based
StagesFrom(idx) == SubSeq(PIPELINE_STAGES, idx, NumStages)

\* SELECT id FROM pipeline_runs WHERE work_id = ? ORDER BY started_at DESC
\* LIMIT 1: the index of the run started last, 0 for no row
LatestRun(runs) == Len(runs)

\* _resolve_stages_to_run(db, work_id, resume, force_stage) on the table as
\* it is when the background task reads it
resolve_stages_to_run(runs, resuming, forced) ==
    IF forced # None THEN StagesFrom(StageIndex(forced))
    ELSE IF resuming /\ LatestRun(runs) # 0
    THEN LET results == runs[LatestRun(runs)].results
             completed_stages ==
                 {results[k].stage_name :
                     k \in {j \in 1..Len(results) :
                                results[j].status = "completed"}}
             incomplete ==
                 {i \in 1..NumStages : PIPELINE_STAGES[i] \notin completed_stages}
         IN IF incomplete # {}
            THEN StagesFrom(CHOOSE i \in incomplete :
                                \A j \in incomplete : i <= j)
            ELSE PIPELINE_STAGES
    ELSE PIPELINE_STAGES

\* UPDATE pipeline_runs SET status = ?, current_stage = ? WHERE id = ?
\* (current_stage None: the column is not among the kwargs)
update_pipeline_run_status(runs, run_id, status, current_stage) ==
    [runs EXCEPT ![run_id] =
        RunRow(status,
               IF current_stage = None THEN @.current_stage ELSE current_stage,
               @.results)]

\* insert_stage_result(db, StageResult(run_id, stage_name, status))
insert_stage_result(runs, run_id, stage_name, status) ==
    [runs EXCEPT ![run_id].results = Append(@, StageRow(stage_name, status))]

\* the table before the request (no run of the work id, or one earlier
\* run), and the request
InitWeb ==
    /\ wruns \in {<<>>} \cup {<<EarlierRun(k, failed)>> :
                                 k \in 0..NumStages, failed \in BOOLEAN}
    /\ wreq \in [resume : BOOLEAN,
                 force_stage : {None, "split", "verify"},
                 stop_after_stage : {None, "plan"}]
    /\ wstages = <<>>
    /\ wi = 0
    /\ wcomplete = 0
    /\ wcancel = "idle"
    /\ wpc = "request"

OtherThanWeb ==
    /\ UNCHANGED <<agentVars, statusVars, reconVars, leaf2Vars, exceptWeb>>
    /\ UNCHANGED <<driverVars, fanoutVars, mergeVars, routeVars>>

\* start_pipeline: the run is inserted with status running, then the
\* background task is created
StartPipeline ==
    /\ wpc = "request"
    /\ wruns' = Append(wruns, RunRow("running", "validate", <<>>))
    /\ wpc' = "resolve"
    /\ UNCHANGED <<wreq, wstages, wi, wcomplete, wcancel>>
    /\ OtherThanWeb

\* stages_to_run = await _resolve_stages_to_run(db, work_id, resume,
\* force_stage)
ResolveStages ==
    /\ wpc = "resolve"
    /\ wstages' = resolve_stages_to_run(wruns, wreq.resume, wreq.force_stage)
    /\ wi' = 1
    /\ wpc' = "loop"
    /\ UNCHANGED <<wruns, wreq, wcomplete, wcancel>>
    /\ OtherThanWeb

\* the head of the loop body: update_pipeline_run_status(db, run_id,
\* "running", current_stage=stage), then the stage function is awaited
StageBegin ==
    /\ wpc = "loop" /\ wi <= Len(wstages)
    /\ wruns' = update_pipeline_run_status(wruns, Len(wruns), "running",
                                           wstages[wi])
    /\ wpc' = "stage"
    /\ UNCHANGED <<wreq, wstages, wi, wcomplete, wcancel>>
    /\ OtherThanWeb

\* the stage function returned rc: the stage result is recorded; rc != 0
\* marks the run failed and publishes pipeline_complete; the stop-after
\* stage marks it awaiting_review; else the loop goes on
StageReturned ==
    /\ wpc = "stage"
    /\ \E rc \in {0, 1} :
         LET stage == wstages[wi]
             recorded == insert_stage_result(
                             wruns, Len(wruns), stage,
                             IF rc = 0 THEN "completed" ELSE "failed")
         IN IF rc # 0
            THEN /\ wruns' = update_pipeline_run_status(
                                 recorded, Len(wruns), "failed", stage)
                 /\ wcomplete' = wcomplete + 1
                 /\ wpc' = "over"
                 /\ UNCHANGED wi
            ELSE IF wreq.stop_after_stage # None
                        /\ stage = wreq.stop_after_stage
            THEN /\ wruns' = update_pipeline_run_status(
                                 recorded, Len(wruns), "awaiting_review", stage)
                 /\ wpc' = "over"
                 /\ UNCHANGED <<wi, wcomplete>>
            ELSE /\ wruns' = recorded
                 /\ wi' = wi + 1
                 /\ wpc' = "loop"
                 /\ UNCHANGED wcomplete
    /\ UNCHANGED <<wreq, wstages, wcancel>>
    /\ OtherThanWeb

\* the stage function raised: except Exception marks the run failed and
\* publishes pipeline_complete
StageRaised ==
    /\ wpc = "stage"
    /\ wruns' = update_pipeline_run_status(wruns, Len(wruns), "failed", None)
    /\ wcomplete' = wcomplete + 1
    /\ wpc' = "over"
    /\ UNCHANGED <<wreq, wstages, wi, wcancel>>
    /\ OtherThanWeb

\* after the loop: all stages passed
AllStagesPassed ==
    /\ wpc = "loop" /\ wi > Len(wstages)
    /\ wruns' = update_pipeline_run_status(wruns, Len(wruns), "completed",
                                           wstages[Len(wstages)])
    /\ wcomplete' = wcomplete + 1
    /\ wpc' = "over"
    /\ UNCHANGED <<wreq, wstages, wi, wcancel>>
    /\ OtherThanWeb

\* cancel_pipeline reads the latest run of the work id: 404 without one,
\* 409 unless its status is running
CancelRead ==
    /\ wcancel = "idle"
    /\ wcancel' = IF LatestRun(wruns) = 0 THEN "not_found"
                  ELSE IF wruns[LatestRun(wruns)].status # "running"
                  THEN "conflict"
                  ELSE "read"
    /\ UNCHANGED <<wruns, wreq, wstages, wi, wcomplete, wpc>>
    /\ OtherThanWeb

\* cancel_pipeline marks the run it read cancelled and publishes
\* pipeline_complete
CancelMark ==
    /\ wcancel = "read"
    /\ wruns' = update_pipeline_run_status(wruns, Len(wruns), "cancelled", None)
    /\ wcomplete' = wcomplete + 1
    /\ wcancel' = "marked"
    /\ UNCHANGED <<wreq, wstages, wi, wpc>>
    /\ OtherThanWeb

NextWeb ==
    \/ StartPipeline
    \/ ResolveStages
    \/ StageBegin
    \/ StageReturned
    \/ StageRaised
    \/ AllStagesPassed
    \/ CancelRead
    \/ CancelMark

WebInit ==
    /\ InitWeb /\ IdleAgent /\ IdleStatus /\ IdleRecon /\ IdleLeaf2
    /\ IdleAgg /\ IdleRetro /\ IdleIds
    /\ NoRun /\ IdleFanout /\ IdleMerge /\ IdleRoute
    /\ dir = AfterSplitDir /\ chunk_files = <<>>

SpecWeb == WebInit /\ [][NextWeb]_vars

\* the stages the earlier run of the work id completed: the first k
CompletedByEarlier ==
    {wruns[1].results[j].stage_name :
        j \in {i \in 1..Len(wruns[1].results) :
                   wruns[1].results[i].status = "completed"}}

\* seq is PIPELINE_STAGES from some index on
IsSuffix(seq) == \E idx \in 1..NumStages : seq = StagesFrom(idx)

\* C39 (fails): a run started with resume and no force_stage, after an
\* earlier run of the work id that completed the stages s1..sk and no more,
\* executes exactly the canonical stages after sk; and the list of stages to
\* run is always a contiguous suffix of the canonical order
C39_ResumeRunsStagesAfterCompleted ==
    wpc \in {"loop", "stage", "over"} =>
        /\ IsSuffix(wstages)
        /\ (wreq.resume /\ wreq.force_stage = None /\ Len(wruns) = 2) =>
               \A i \in 1..NumStages :
                   (\E j \in 1..Len(wstages) : wstages[j] = PIPELINE_STAGES[i])
                       <=> PIPELINE_STAGES[i] \notin CompletedByEarlier

\* C40 (fails): once cancel_pipeline has marked the run cancelled its status
\* stays cancelled, and pipeline_complete is published at most once
C40_CancelledStaysCancelled ==
    wcancel = "marked" =>
        /\ wruns[Len(wruns)].status = "cancelled"
        /\ wcomplete <= 1

====
